---- MODULE Spec2Model ----
(***************************************************************************)
(* Behavior scheduling and lifecycle engine of the virtual pet:            *)
(* BaseBehavior / PlayingBehavior / StretchingBehavior, BehaviorManager,   *)
(* and the player actions with their reaction overlay (ReactionManager).   *)
(*                                                                         *)
(* Time is counted in ticks of 1/TicksPerSecond s, stats in units of       *)
(* 1/StatUnit of a stat point, progress in units of 1/ProgressOne, so that  *)
(* every rate * dt and bonus * progress of the program is an integer.      *)
(***************************************************************************)
EXTENDS Integers, Sequences, FiniteSets, TLC

VARIABLES
    current_time,            \* BehaviorManager._current_time
    time_since_check,        \* BehaviorManager._time_since_check
    active,                  \* name -> BaseBehavior._active
    phase,                   \* name -> BaseBehavior._phase
    phase_timer,             \* name -> BaseBehavior._phase_timer
    progress,                \* name -> BaseBehavior._progress
    pose_before,             \* name -> BaseBehavior._pose_before
    on_complete,             \* name -> BaseBehavior._on_complete
    last_trigger_time,       \* name -> BaseBehavior._last_trigger_time
    pose_name,               \* character.pose_name
    stats,                   \* the context's stats
    override_next_behavior,  \* context.override_next_behavior
    reaction_bubble,         \* ReactionManager.bubble
    reaction_timer,          \* ReactionManager.timer
    reaction_duration,       \* ReactionManager.duration
    call,                    \* history: the last call made, and what it did
    external_calls,          \* history: how many calls callers other than the game loop made
    play_run,                \* history: the run of Playing in progress or just ended
    callbacks,               \* history: name -> callbacks invoked since its last start
    reaction_run,            \* history: the reaction armed last, and what happened since
    probe                    \* input and result of a function applied on its own

vars == <<current_time, time_since_check, active, phase, phase_timer, progress,
          pose_before, on_complete, last_trigger_time, pose_name, stats,
          override_next_behavior, reaction_bubble, reaction_timer,
          reaction_duration, call, external_calls, play_run, callbacks,
          reaction_run, probe>>

-----------------------------------------------------------------------------
(* Units *)

TicksPerSecond == 4
StatUnit == 24
ProgressOne == 60

None == "none"

Max(a, b) == IF a >= b THEN a ELSE b
Min(a, b) == IF a <= b THEN a ELSE b

-----------------------------------------------------------------------------
(* Bounds of the model *)

\* update(dt) is called while the elapsed time stays within MaxTime ticks
MaxTime == 92
\* the same, in the runs of the game loop alone (SpecAuto)
MaxTimeAuto == 264
\* number of trigger(name) calls and override writes made from outside
MaxExternal == 1
\* number of candidates of a selection applied on its own
MaxItems == 3
\* number of stat writes applied on their own
MaxWrites == 2
\* number of start and stop calls made on the behaviors directly
MaxDirect == 3
\* the elapsed time, in ticks, of the runs with direct calls (SpecDirect)
MaxTimeDirect == 20
\* number of apply_action calls
MaxActions == 2
\* the elapsed time, in ticks, of the runs with player actions (SpecOverlay)
MaxTimeOverlay == 68

\* the elapsed time, in ticks, of the runs with updates of 7 s (SpecStep)
MaxTimeStep == 100

\* the elapsed time, in ticks, of the runs of the fair game loop (SpecLive)
MaxTimeLive == 152

\* the dt values update is called with, in ticks: 1 s, 5 s, 15 s
DtSet == {4, 20, 60}

\* the dt values of the fair game loop, in ticks: 1 s, 5 s
DtLive == {TicksPerSecond, 5 * TicksPerSecond}

\* the dt values of the runs with long single updates, in ticks: 1 s, 7 s
DtStep == {TicksPerSecond, 7 * TicksPerSecond}

-----------------------------------------------------------------------------
(* The registry: _create_behaviors registers, in this order, the behaviors *)
(* whose classes are modelled.                                             *)

Idle == "idle"
Registered == <<"idle", "playing", "stretching">>
Names == {Registered[i] : i \in 1..Len(Registered)}
\* a name no behavior is registered under
Unregistered == "nap"

StatNames == {"playfulness", "energy", "stimulation", "fulfillment", "comfort",
              "vigor", "affection", "curiosity", "fullness"}

\* TRIGGER_STAT (None: manual only)
TRIGGER_STAT(b) ==
    CASE b = "playing" -> "playfulness"
      [] b = "stretching" -> "comfort"
      [] OTHER -> None

\* TRIGGER_THRESHOLD, in stat points
TRIGGER_THRESHOLD(b) ==
    CASE b = "playing" -> 70
      [] b = "stretching" -> 40
      [] OTHER -> 50

TRIGGER_BELOW(b) ==
    CASE b = "playing" -> FALSE
      [] b = "stretching" -> TRUE
      [] OTHER -> TRUE

PRIORITY(b) ==
    CASE b = "playing" -> 30
      [] b = "stretching" -> 50
      [] OTHER -> 50

\* COOLDOWN, in seconds
COOLDOWN(b) ==
    CASE b = "playing" -> 60
      [] b = "stretching" -> 45
      [] OTHER -> 60

\* STAT_EFFECTS: stat -> twice the rate per second
STAT_EFFECTS(b) ==
    CASE b = "playing" ->
            [s \in {"playfulness", "energy", "stimulation"} |->
                CASE s = "playfulness" -> -4 [] s = "energy" -> -1 [] OTHER -> 2]
      [] b = "stretching" ->
            [s \in {"comfort", "vigor"} |-> IF s = "comfort" THEN 3 ELSE 1]
      [] OTHER -> [s \in {} |-> 0]

\* COMPLETION_BONUS: stat -> bonus in stat points
COMPLETION_BONUS(b) ==
    CASE b = "playing" ->
            [s \in {"playfulness", "fulfillment"} |->
                IF s = "playfulness" THEN -25 ELSE 10]
      [] b = "stretching" ->
            [s \in {"comfort", "vigor"} |-> IF s = "comfort" THEN 15 ELSE 5]
      [] OTHER -> [s \in {} |-> 0]

\* phase durations, in ticks
excited_duration == 1 * TicksPerSecond
play_duration == 5 * TicksPerSecond
tired_duration == 1 * TicksPerSecond
prepare_duration == TicksPerSecond \div 2
stretch_duration == 3 * TicksPerSecond
relax_duration == 1 * TicksPerSecond

\* BehaviorManager._check_interval, in ticks
check_interval == 15 * TicksPerSecond

\* the completion callbacks a behavior can hold
Handler == "_on_behavior_complete"
\* a callback of a caller that starts a behavior directly
External == "on_complete"

-----------------------------------------------------------------------------
(* The state threaded through one call: the program's fields, and the log  *)
(* of what the call has done so far.                                       *)

Cur == [current_time |-> current_time, time_since_check |-> time_since_check,
        active |-> active, phase |-> phase, phase_timer |-> phase_timer,
        progress |-> progress, pose_before |-> pose_before,
        on_complete |-> on_complete, last_trigger_time |-> last_trigger_time,
        pose_name |-> pose_name, stats |-> stats,
        override_next_behavior |-> override_next_behavior,
        log |-> <<>>]

\* an entry of the log: what was called (ev) on which behavior (b) with which
\* arguments; for a stop, whether it left pose and stats as they were (kept)
\* and the entries logged inside it (inner)
Event(ev, b, completed, prog, cb, kept, inner) ==
    [ev |-> ev, b |-> b, completed |-> completed, progress |-> prog, cb |-> cb,
     kept |-> kept, inner |-> inner]

Note(ev, b) == Event(ev, b, FALSE, 0, None, FALSE, <<>>)

Logged(s, e) == [s EXCEPT !.log = Append(@, e)]

\* character.set_pose(pose)
set_pose(s, pose) == [s EXCEPT !.pose_name = pose]

\* a clamp with the upper limit left out
ClampNoUpper(value) == Max(0, value)

\* max(0, min(100, value)), in stat units
Clamp(value) == Max(0, Min(100 * StatUnit, value))

\* the loop of apply_stat_effects over a map stat -> twice the rate per second
ApplyRates(st, rates, dt) ==
    [n \in DOMAIN st |->
        IF n \in DOMAIN rates
        THEN Clamp(st[n] + (rates[n] * StatUnit * dt) \div (2 * TicksPerSecond))
        ELSE st[n]]

\* the loop of apply_completion_bonus over a map stat -> bonus
ApplyBonus(st, bonus, prog) ==
    [n \in DOMAIN st |->
        IF n \in DOMAIN bonus
        THEN Clamp(st[n] + (bonus[n] * StatUnit * prog) \div ProgressOne)
        ELSE st[n]]

\* the loop of apply_action over a map stat -> delta
ApplyDeltas(st, deltas) ==
    [n \in DOMAIN st |->
        IF n \in DOMAIN deltas THEN Clamp(st[n] + deltas[n] * StatUnit) ELSE st[n]]

\* apply_stat_effects that passes over a behavior that is no longer active
apply_stat_effects_if_active(s, b, dt) ==
    IF ~s.active[b] THEN s
    ELSE Logged([s EXCEPT !.stats = ApplyRates(@, STAT_EFFECTS(b), dt)],
                Note("effects", b))

\* BaseBehavior.apply_stat_effects
apply_stat_effects(s, b, dt) ==
    Logged([s EXCEPT !.stats = ApplyRates(@, STAT_EFFECTS(b), dt)],
           Note("effects", b))

\* BaseBehavior.apply_completion_bonus
apply_completion_bonus(s, b, prog) ==
    Logged([s EXCEPT !.stats = ApplyBonus(@, COMPLETION_BONUS(b), prog)],
           Event("bonus", b, TRUE, prog, None, FALSE, <<>>))

\* a mark_triggered that records nothing
mark_triggered_skip(s, b, now) == s

\* BaseBehavior.mark_triggered
mark_triggered(s, b, now) == [s EXCEPT !.last_trigger_time[b] = now]

\* the behaviors the completion handler's scan can stop at, in scan order
BonusCandidates(s) ==
    {i \in 1..Len(Registered) :
        /\ ~s.active[Registered[i]]
        /\ DOMAIN COMPLETION_BONUS(Registered[i]) # {}}

\* a completion handler that does not look at completed
on_behavior_complete_any(s, completed, prog) ==
    IF BonusCandidates(s) # {}
    THEN LET i == CHOOSE k \in BonusCandidates(s) :
                      \A j \in BonusCandidates(s) : k <= j
         IN  apply_completion_bonus(s, Registered[i], prog)
    ELSE s

\* BehaviorManager._on_behavior_complete
on_behavior_complete(s, completed, prog) ==
    IF completed /\ BonusCandidates(s) # {}
    THEN LET i == CHOOSE k \in BonusCandidates(s) :
                      \A j \in BonusCandidates(s) : k <= j
         IN  apply_completion_bonus(s, Registered[i], prog)
    ELSE s

\* invoking a stored callback
Callback(s, cb, completed, prog) ==
    LET s1 == Logged(s, Event("callback", None, completed, prog, cb, FALSE, <<>>))
    IN  IF cb = Handler THEN on_behavior_complete(s1, completed, prog) ELSE s1

\* a stop that leaves the pose where it is
stop_no_restore(s, b, completed) ==
    IF ~s.active[b] THEN s
    ELSE LET s1 == [s EXCEPT !.active[b] = FALSE]
             cb == s1.on_complete[b]
             final_progress == s1.progress[b]
             s3 == [s1 EXCEPT !.pose_before[b] = None, !.on_complete[b] = None]
             s4 == IF cb # None THEN Callback(s3, cb, completed, final_progress)
                   ELSE s3
         IN  Logged(s4, Event("stop", b, completed, final_progress, cb,
                              s4.pose_name = s.pose_name /\ s4.stats = s.stats,
                              SubSeq(s4.log, Len(s.log) + 1, Len(s4.log))))

\* a stop that runs on an inactive behavior too and keeps the callback
stop_unguarded(s, b, completed) ==
    LET s1 == [s EXCEPT !.active[b] = FALSE]
        s2 == IF s1.pose_before[b] # None /\ completed
              THEN set_pose(s1, s1.pose_before[b]) ELSE s1
        cb == s2.on_complete[b]
        final_progress == s2.progress[b]
        s3 == [s2 EXCEPT !.pose_before[b] = None]
        s4 == IF cb # None THEN Callback(s3, cb, completed, final_progress)
              ELSE s3
    IN  Logged(s4, Event("stop", b, completed, final_progress, cb,
                         s4.pose_name = s.pose_name /\ s4.stats = s.stats,
                         SubSeq(s4.log, Len(s.log) + 1, Len(s4.log))))

\* a stop that restores the snapshot also when interrupted
stop_always_restore(s, b, completed) ==
    IF ~s.active[b] THEN s
    ELSE LET s1 == [s EXCEPT !.active[b] = FALSE]
             s2 == IF s1.pose_before[b] # None
                   THEN set_pose(s1, s1.pose_before[b]) ELSE s1
             cb == s2.on_complete[b]
             final_progress == s2.progress[b]
             s3 == [s2 EXCEPT !.pose_before[b] = None, !.on_complete[b] = None]
             s4 == IF cb # None THEN Callback(s3, cb, completed, final_progress)
                   ELSE s3
         IN  Logged(s4, Event("stop", b, completed, final_progress, cb,
                              s4.pose_name = s.pose_name /\ s4.stats = s.stats,
                              SubSeq(s4.log, Len(s.log) + 1, Len(s4.log))))

\* BaseBehavior.stop
stop(s, b, completed) ==
    IF ~s.active[b] THEN s
    ELSE LET s1 == [s EXCEPT !.active[b] = FALSE]
             s2 == IF s1.pose_before[b] # None /\ completed
                   THEN set_pose(s1, s1.pose_before[b]) ELSE s1
             cb == s2.on_complete[b]
             final_progress == s2.progress[b]
             s3 == [s2 EXCEPT !.pose_before[b] = None, !.on_complete[b] = None]
             s4 == IF cb # None THEN Callback(s3, cb, completed, final_progress)
                   ELSE s3
         IN  Logged(s4, Event("stop", b, completed, final_progress, cb,
                              s4.pose_name = s.pose_name /\ s4.stats = s.stats,
                              SubSeq(s4.log, Len(s.log) + 1, Len(s4.log))))

\* the first phase of a behavior and the pose its start forces (None: none)
FirstPhase(b) ==
    CASE b = "playing" -> "excited"
      [] b = "stretching" -> "preparing"
      [] OTHER -> "start"

StartPose(b) ==
    CASE b = "playing" -> "sitting.side.happy"
      [] b = "stretching" -> "standing.side.neutral"
      [] OTHER -> None

\* the pose that the entry into a phase sets
PhasePose(b, ph) ==
    CASE b = "playing" /\ ph = "excited" -> "sitting.side.happy"
      [] b = "playing" /\ ph = "playing" -> "sitting_silly.side.happy"
      [] b = "playing" /\ ph = "tired" -> "sitting.side.neutral"
      [] b = "stretching" /\ ph = "preparing" -> "standing.side.neutral"
      [] b = "stretching" /\ ph = "stretching" -> "leaning_forward.side.stretch"
      [] b = "stretching" /\ ph = "relaxing" -> "standing.side.neutral"
      [] OTHER -> None

\* a start that begins again when the behavior is already active
start_restart(s, b, cb) ==
    LET s1 == [s EXCEPT !.active[b] = TRUE,
                        !.phase[b] = FirstPhase(b),
                        !.phase_timer[b] = 0,
                        !.progress[b] = 0,
                        !.pose_before[b] = s.pose_name,
                        !.on_complete[b] = cb]
        s2 == IF StartPose(b) # None THEN set_pose(s1, StartPose(b)) ELSE s1
    IN  Logged(s2, Event("start", b, FALSE, 0, cb, FALSE, <<>>))

\* BaseBehavior.start, PlayingBehavior.start, StretchingBehavior.start
start(s, b, cb) ==
    IF s.active[b] THEN s
    ELSE LET s1 == [s EXCEPT !.active[b] = TRUE,
                             !.phase[b] = FirstPhase(b),
                             !.phase_timer[b] = 0,
                             !.progress[b] = 0,
                             !.pose_before[b] = s.pose_name,
                             !.on_complete[b] = cb]
             s2 == IF StartPose(b) # None THEN set_pose(s1, StartPose(b)) ELSE s1
         IN  Logged(s2, Event("start", b, FALSE, 0, cb, FALSE, <<>>))

\* phase_timer / duration, without the limit of 1.0
ProgressUnclamped(timer, duration) == (timer * ProgressOne) \div duration

\* min(1.0, phase_timer / duration)
Progress(timer, duration) == Min(ProgressOne, (timer * ProgressOne) \div duration)

\* an update of Playing that carries the time left over into the next phases
PlayingUpdateSkip(s, dt) ==
    LET b == "playing"
        s1 == [s EXCEPT !.phase_timer[b] = @ + dt]
        t == s1.phase_timer[b]
    IN  CASE s1.phase[b] = "excited" ->
                IF t >= excited_duration + play_duration
                THEN set_pose([s1 EXCEPT !.phase[b] = "tired",
                                         !.progress[b] = ProgressOne,
                                         !.phase_timer[b] = 0],
                              "sitting.side.neutral")
                ELSE IF t >= excited_duration
                THEN set_pose([s1 EXCEPT !.phase[b] = "playing", !.phase_timer[b] = 0],
                              "sitting_silly.side.happy")
                ELSE s1
          [] s1.phase[b] = "playing" ->
                LET s2 == [s1 EXCEPT !.progress[b] = Progress(t, play_duration)]
                IN  IF t >= play_duration
                    THEN set_pose([s2 EXCEPT !.phase[b] = "tired", !.phase_timer[b] = 0],
                                  "sitting.side.neutral")
                    ELSE s2
          [] s1.phase[b] = "tired" ->
                IF t >= tired_duration THEN stop(s1, b, TRUE) ELSE s1
          [] OTHER -> s1

\* an update of Playing that keeps the time by which a phase was overshot
PlayingUpdateCarry(s, dt) ==
    LET b == "playing"
        s1 == [s EXCEPT !.phase_timer[b] = @ + dt]
        t == s1.phase_timer[b]
    IN  CASE s1.phase[b] = "excited" ->
                IF t >= excited_duration
                THEN set_pose([s1 EXCEPT !.phase[b] = "playing",
                                         !.phase_timer[b] = t - excited_duration],
                              "sitting_silly.side.happy")
                ELSE s1
          [] s1.phase[b] = "playing" ->
                LET s2 == [s1 EXCEPT !.progress[b] = Progress(t, play_duration)]
                IN  IF t >= play_duration
                    THEN set_pose([s2 EXCEPT !.phase[b] = "tired",
                                             !.phase_timer[b] = t - play_duration],
                                  "sitting.side.neutral")
                    ELSE s2
          [] s1.phase[b] = "tired" ->
                IF t >= tired_duration THEN stop(s1, b, TRUE) ELSE s1
          [] OTHER -> s1

\* an update of Playing that leaves the main phase without computing the
\* progress again
PlayingUpdateStale(s, dt) ==
    LET b == "playing"
        s1 == [s EXCEPT !.phase_timer[b] = @ + dt]
        t == s1.phase_timer[b]
    IN  CASE s1.phase[b] = "excited" ->
                IF t >= excited_duration
                THEN set_pose([s1 EXCEPT !.phase[b] = "playing", !.phase_timer[b] = 0],
                              "sitting_silly.side.happy")
                ELSE s1
          [] s1.phase[b] = "playing" ->
                IF t >= play_duration
                THEN set_pose([s1 EXCEPT !.phase[b] = "tired", !.phase_timer[b] = 0],
                              "sitting.side.neutral")
                ELSE [s1 EXCEPT !.progress[b] = Progress(t, play_duration)]
          [] s1.phase[b] = "tired" ->
                IF t >= tired_duration THEN stop(s1, b, TRUE) ELSE s1
          [] OTHER -> s1

\* PlayingBehavior.update
PlayingUpdate(s, dt) ==
    LET b == "playing"
        s1 == [s EXCEPT !.phase_timer[b] = @ + dt]
        t == s1.phase_timer[b]
    IN  CASE s1.phase[b] = "excited" ->
                IF t >= excited_duration
                THEN set_pose([s1 EXCEPT !.phase[b] = "playing", !.phase_timer[b] = 0],
                              "sitting_silly.side.happy")
                ELSE s1
          [] s1.phase[b] = "playing" ->
                LET s2 == [s1 EXCEPT !.progress[b] = Progress(t, play_duration)]
                IN  IF t >= play_duration
                    THEN set_pose([s2 EXCEPT !.phase[b] = "tired", !.phase_timer[b] = 0],
                                  "sitting.side.neutral")
                    ELSE s2
          [] s1.phase[b] = "tired" ->
                IF t >= tired_duration THEN stop(s1, b, TRUE) ELSE s1
          [] OTHER -> s1

\* an update of Stretching that carries the time left over into the next
\* phases
StretchingUpdateSkip(s, dt) ==
    LET b == "stretching"
        s1 == [s EXCEPT !.phase_timer[b] = @ + dt]
        t == s1.phase_timer[b]
    IN  CASE s1.phase[b] = "preparing" ->
                IF t >= prepare_duration + stretch_duration
                THEN set_pose([s1 EXCEPT !.phase[b] = "relaxing",
                                         !.progress[b] = ProgressOne,
                                         !.phase_timer[b] = 0],
                              "standing.side.neutral")
                ELSE IF t >= prepare_duration
                THEN set_pose([s1 EXCEPT !.phase[b] = "stretching", !.phase_timer[b] = 0],
                              "leaning_forward.side.stretch")
                ELSE s1
          [] s1.phase[b] = "stretching" ->
                LET s2 == [s1 EXCEPT !.progress[b] = Progress(t, stretch_duration)]
                IN  IF t >= stretch_duration
                    THEN set_pose([s2 EXCEPT !.phase[b] = "relaxing", !.phase_timer[b] = 0],
                                  "standing.side.neutral")
                    ELSE s2
          [] s1.phase[b] = "relaxing" ->
                IF t >= relax_duration THEN stop(s1, b, TRUE) ELSE s1
          [] OTHER -> s1

\* an update of Stretching that compares dt, not the time spent in the
\* phase, with the phase's duration
StretchingUpdateStall(s, dt) ==
    LET b == "stretching"
        s1 == [s EXCEPT !.phase_timer[b] = @ + dt]
        t == dt
    IN  CASE s1.phase[b] = "preparing" ->
                IF t >= prepare_duration
                THEN set_pose([s1 EXCEPT !.phase[b] = "stretching", !.phase_timer[b] = 0],
                              "leaning_forward.side.stretch")
                ELSE s1
          [] s1.phase[b] = "stretching" ->
                LET s2 == [s1 EXCEPT !.progress[b] =
                                         Progress(s1.phase_timer[b], stretch_duration)]
                IN  IF t >= stretch_duration
                    THEN set_pose([s2 EXCEPT !.phase[b] = "relaxing", !.phase_timer[b] = 0],
                                  "standing.side.neutral")
                    ELSE s2
          [] s1.phase[b] = "relaxing" ->
                IF t >= relax_duration THEN stop(s1, b, TRUE) ELSE s1
          [] OTHER -> s1

\* StretchingBehavior.update
StretchingUpdate(s, dt) ==
    LET b == "stretching"
        s1 == [s EXCEPT !.phase_timer[b] = @ + dt]
        t == s1.phase_timer[b]
    IN  CASE s1.phase[b] = "preparing" ->
                IF t >= prepare_duration
                THEN set_pose([s1 EXCEPT !.phase[b] = "stretching", !.phase_timer[b] = 0],
                              "leaning_forward.side.stretch")
                ELSE s1
          [] s1.phase[b] = "stretching" ->
                LET s2 == [s1 EXCEPT !.progress[b] = Progress(t, stretch_duration)]
                IN  IF t >= stretch_duration
                    THEN set_pose([s2 EXCEPT !.phase[b] = "relaxing", !.phase_timer[b] = 0],
                                  "standing.side.neutral")
                    ELSE s2
          [] s1.phase[b] = "relaxing" ->
                IF t >= relax_duration THEN stop(s1, b, TRUE) ELSE s1
          [] OTHER -> s1

\* IdleBehavior.update: the idle filler has no phases to advance
IdleUpdate(s, dt) == s

\* behavior.update(dt)
behavior_update(s, b, dt) ==
    IF ~s.active[b] THEN s
    ELSE CASE b = "playing" -> PlayingUpdate(s, dt)
           [] b = "stretching" -> StretchingUpdate(s, dt)
           [] OTHER -> IdleUpdate(s, dt)

-----------------------------------------------------------------------------
(* BehaviorManager *)

\* an active_behavior that looks at idle first
active_behavior_idle_first(s) ==
    LET nonidle == {i \in 1..Len(Registered) :
                        s.active[Registered[i]] /\ Registered[i] # Idle}
    IN  IF s.active[Idle] THEN Idle
        ELSE IF nonidle # {}
        THEN Registered[CHOOSE k \in nonidle : \A j \in nonidle : k <= j]
        ELSE None

\* BehaviorManager.active_behavior: a name, or None
active_behavior(s) ==
    LET nonidle == {i \in 1..Len(Registered) :
                        s.active[Registered[i]] /\ Registered[i] # Idle}
    IN  IF nonidle # {}
        THEN Registered[CHOOSE k \in nonidle : \A j \in nonidle : k <= j]
        ELSE IF s.active[Idle] THEN Idle ELSE None

\* a comparison that takes a stat equal to the threshold too
ThresholdMetInclusive(s, b) ==
    IF TRIGGER_BELOW(b)
    THEN s.stats[TRIGGER_STAT(b)] <= TRIGGER_THRESHOLD(b) * StatUnit
    ELSE s.stats[TRIGGER_STAT(b)] >= TRIGGER_THRESHOLD(b) * StatUnit

\* can_trigger, the comparison of the trigger stat with the threshold
ThresholdMet(s, b) ==
    IF TRIGGER_BELOW(b)
    THEN s.stats[TRIGGER_STAT(b)] < TRIGGER_THRESHOLD(b) * StatUnit
    ELSE s.stats[TRIGGER_STAT(b)] > TRIGGER_THRESHOLD(b) * StatUnit

\* can_trigger with the cooldown test left out
can_trigger_no_cooldown(s, b, now) ==
    IF TRIGGER_STAT(b) # None THEN ThresholdMet(s, b) ELSE FALSE

\* BaseBehavior.can_trigger
can_trigger(s, b, now) ==
    IF now - s.last_trigger_time[b] < COOLDOWN(b) * TicksPerSecond THEN FALSE
    ELSE IF TRIGGER_STAT(b) # None THEN ThresholdMet(s, b)
         ELSE FALSE

\* an insertion that puts x before the elements of equal key
RECURSIVE InsertByKeyUnstable(_, _, _)
InsertByKeyUnstable(sorted, x, key) ==
    IF sorted = <<>> THEN <<x>>
    ELSE IF key[x] <= key[Head(sorted)] THEN <<x>> \o sorted
         ELSE <<Head(sorted)>> \o InsertByKeyUnstable(Tail(sorted), x, key)

\* list.sort(key=...): a stable insertion of x into a sorted list
RECURSIVE InsertByKey(_, _, _)
InsertByKey(sorted, x, key) ==
    IF sorted = <<>> THEN <<x>>
    ELSE IF key[x] < key[Head(sorted)] THEN <<x>> \o sorted
         ELSE <<Head(sorted)>> \o InsertByKey(Tail(sorted), x, key)

RECURSIVE SortByKey(_, _)
SortByKey(list, key) ==
    IF list = <<>> THEN <<>>
    ELSE InsertByKey(SortByKey(SubSeq(list, 1, Len(list) - 1), key),
                     list[Len(list)], key)

\* the eligible list of _try_automatic_trigger, in registration order
Eligible(s) ==
    LET ok(b) == b # Idle /\ can_trigger(s, b, s.current_time)
    IN  SelectSeq(Registered, ok)

\* eligible.sort(key=...); best = eligible[0]
BestBy(eligible, key) == SortByKey(eligible, key)[1]

\* eligible.sort(key=lambda b: b.PRIORITY); best = eligible[0]
Best(eligible) == BestBy(eligible, [b \in Names |-> PRIORITY(b)])

\* trigger without the stop of the active behavior
trigger_no_stop(s, name) ==
    IF name \in Names
    THEN [s |-> start(mark_triggered(s, name, s.current_time), name, None),
          ret |-> TRUE]
    ELSE [s |-> s, ret |-> FALSE]

\* a trigger that ends the active behavior as completed
trigger_completes(s, name) ==
    LET act == active_behavior(s)
        s1 == IF act # None THEN stop(s, act, TRUE) ELSE s
    IN  IF name \in Names
        THEN [s |-> start(mark_triggered(s1, name, s1.current_time), name, None),
              ret |-> TRUE]
        ELSE [s |-> s1, ret |-> FALSE]

\* BehaviorManager.trigger: the state after the call and the value returned
trigger(s, name) ==
    LET act == active_behavior(s)
        s1 == IF act # None THEN stop(s, act, FALSE) ELSE s
    IN  IF name \in Names
        THEN [s |-> start(mark_triggered(s1, name, s1.current_time), name, None),
              ret |-> TRUE]
        ELSE [s |-> s1, ret |-> FALSE]

\* BehaviorManager._try_automatic_trigger
try_automatic_trigger(s) ==
    LET s0 == Logged(s, Note("check", None))
        eligible == Eligible(s0)
    IN  IF eligible = <<>> THEN [s |-> s0, ret |-> FALSE]
        ELSE LET best == Best(eligible)
                 s1 == IF s0.active[Idle] THEN stop(s0, Idle, FALSE) ELSE s0
                 s2 == Logged(mark_triggered(s1, best, s1.current_time),
                              Note("auto", best))
             IN  [s |-> start(s2, best, Handler), ret |-> TRUE]

\* an update that ends without the fallback to idle
UpdateNoFallback(s) == s

\* update, from the fallback to idle on
UpdateIdleFallback(s) ==
    IF ~s.active[Idle] THEN start(s, Idle, None) ELSE s

\* a periodic check that resets the counter only when it selects
UpdatePeriodicNoReset(s, dt) ==
    LET s1 == [s EXCEPT !.time_since_check = @ + dt]
    IN  IF s1.time_since_check >= check_interval
        THEN LET r == try_automatic_trigger(s1)
             IN  IF r.ret THEN [r.s EXCEPT !.time_since_check = 0]
                 ELSE UpdateIdleFallback(r.s)
        ELSE UpdateIdleFallback(s1)

\* update, from the periodic check on
UpdatePeriodic(s, dt) ==
    LET s1 == [s EXCEPT !.time_since_check = @ + dt]
    IN  IF s1.time_since_check >= check_interval
        THEN LET r == try_automatic_trigger([s1 EXCEPT !.time_since_check = 0])
             IN  IF r.ret THEN r.s ELSE UpdateIdleFallback(r.s)
        ELSE UpdateIdleFallback(s1)

\* an override check that leaves the slot as it is
UpdateOverrideKeepSlot(s, dt) ==
    IF s.override_next_behavior # None
    THEN LET r == trigger(s, s.override_next_behavior)
         IN  IF r.ret THEN r.s ELSE UpdatePeriodic(r.s, dt)
    ELSE UpdatePeriodic(s, dt)

\* update, from the override check on
UpdateOverride(s, dt) ==
    IF s.override_next_behavior # None
    THEN LET r == trigger([s EXCEPT !.override_next_behavior = None],
                          s.override_next_behavior)
         IN  IF r.ret THEN r.s ELSE UpdatePeriodic(r.s, dt)
    ELSE UpdatePeriodic(s, dt)

\* an update that goes on to the override and the periodic check whatever
\* is active
update_fallthrough(s, dt) ==
    LET s1 == [s EXCEPT !.current_time = @ + dt]
        act == active_behavior(s1)
        s2 == IF act # None /\ act # Idle /\ s1.active[Idle]
              THEN stop(s1, Idle, FALSE) ELSE s1
    IN  IF act # None
        THEN UpdateOverride(apply_stat_effects(behavior_update(s2, act, dt), act, dt), dt)
        ELSE UpdateOverride(s2, dt)

\* an update that goes on to the override, the check and the fallback when
\* the behavior it advanced has ended
update_refill(s, dt) ==
    LET s1 == [s EXCEPT !.current_time = @ + dt]
        act == active_behavior(s1)
        s2 == IF act # None /\ act # Idle /\ s1.active[Idle]
              THEN stop(s1, Idle, FALSE) ELSE s1
    IN  IF act # None
        THEN LET s3 == apply_stat_effects(behavior_update(s2, act, dt), act, dt)
             IN  IF act # Idle /\ s3.active[act] THEN s3
                 ELSE UpdateOverride(s3, dt)
        ELSE UpdateOverride(s2, dt)

\* an update that applies the stat effects before it advances the behavior
update_effects_first(s, dt) ==
    LET s1 == [s EXCEPT !.current_time = @ + dt]
        act == active_behavior(s1)
        s2 == IF act # None /\ act # Idle /\ s1.active[Idle]
              THEN stop(s1, Idle, FALSE) ELSE s1
    IN  IF act # None
        THEN LET s3 == behavior_update(apply_stat_effects(s2, act, dt), act, dt)
             IN  IF act # Idle THEN s3 ELSE UpdateOverride(s3, dt)
        ELSE UpdateOverride(s2, dt)

\* an update that honours a pending override at once, whatever is active
update_preempt(s, dt) ==
    LET s1 == [s EXCEPT !.current_time = @ + dt]
        act == active_behavior(s1)
        s2 == IF act # None /\ act # Idle /\ s1.active[Idle]
              THEN stop(s1, Idle, FALSE) ELSE s1
    IN  IF act # None
        THEN LET s3 == apply_stat_effects(behavior_update(s2, act, dt), act, dt)
             IN  IF act # Idle /\ s3.override_next_behavior = None THEN s3
                 ELSE UpdateOverride(s3, dt)
        ELSE UpdateOverride(s2, dt)

\* an update that leaves idle running beside a non-idle behavior
update_keep_idle(s, dt) ==
    LET s1 == [s EXCEPT !.current_time = @ + dt]
        act == active_behavior(s1)
    IN  IF act # None
        THEN LET s3 == apply_stat_effects(behavior_update(s1, act, dt), act, dt)
             IN  IF act # Idle THEN s3 ELSE UpdateOverride(s3, dt)
        ELSE UpdateOverride(s1, dt)

\* BehaviorManager.update
update(s, dt) ==
    LET s1 == [s EXCEPT !.current_time = @ + dt]
        act == active_behavior(s1)
        s2 == IF act # None /\ act # Idle /\ s1.active[Idle]
              THEN stop(s1, Idle, FALSE) ELSE s1
    IN  IF act # None
        THEN LET s3 == apply_stat_effects(behavior_update(s2, act, dt), act, dt)
             IN  IF act # Idle THEN s3 ELSE UpdateOverride(s3, dt)
        ELSE UpdateOverride(s2, dt)

-----------------------------------------------------------------------------
(* Player actions and the reaction overlay *)

ActionKeys == {"kiss", "pets", "psst", "snack", "toy", "point_bird",
               "throw_stick", "treat"}

\* the ACTIONS dict, by key: the stat deltas and the reaction (pose, bubble, duration in
\* ticks)
Actions(key) ==
    CASE key = "kiss" ->
            [stats |-> [n \in {"affection"} |-> 10],
             pose |-> "sitting.forward.happy", bubble |-> "heart",
             duration |-> (5 * TicksPerSecond) \div 2]
      [] key = "pets" ->
            [stats |-> [n \in {"affection"} |-> 5],
             pose |-> "sitting.forward.content", bubble |-> "note",
             duration |-> 2 * TicksPerSecond]
      [] key = "psst" ->
            [stats |-> [n \in {"curiosity"} |-> 3],
             pose |-> "sitting.forward.aloof", bubble |-> "question",
             duration |-> (3 * TicksPerSecond) \div 2]
      [] key = "snack" ->
            [stats |-> [n \in {"fullness"} |-> 10],
             pose |-> "sitting.forward.happy", bubble |-> "heart",
             duration |-> 2 * TicksPerSecond]
      [] key = "toy" ->
            [stats |-> [n \in {"playfulness", "stimulation"} |->
                          IF n = "playfulness" THEN 15 ELSE 10],
             pose |-> "sitting.forward.happy", bubble |-> "exclaim",
             duration |-> 2 * TicksPerSecond]
      [] key = "point_bird" ->
            [stats |-> [n \in {"curiosity", "stimulation"} |->
                          IF n = "curiosity" THEN 10 ELSE 5],
             pose |-> "sitting.side.aloof", bubble |-> "exclaim",
             duration |-> 2 * TicksPerSecond]
      [] key = "throw_stick" ->
            [stats |-> [n \in {"playfulness", "energy"} |->
                          IF n = "playfulness" THEN 15 ELSE -10],
             pose |-> "sitting.side.happy", bubble |-> "star",
             duration |-> (5 * TicksPerSecond) \div 2]
      [] OTHER ->
            [stats |-> [n \in {"fullness", "affection"} |->
                          IF n = "fullness" THEN 5 ELSE 3],
             pose |-> "sitting.side.happy", bubble |-> "heart",
             duration |-> 2 * TicksPerSecond]

\* the fields of the ReactionManager
Overlay == [bubble |-> reaction_bubble, timer |-> reaction_timer,
            duration |-> reaction_duration]

\* a trigger_from_config that arms the overlay and leaves the pose alone
trigger_from_config_no_pose(s, o, reaction) ==
    [s |-> s,
     o |-> [bubble |-> reaction.bubble, timer |-> reaction.duration,
            duration |-> reaction.duration]]

\* a trigger_from_config that leaves an armed overlay as it is
trigger_from_config_keep_slot(s, o, reaction) ==
    IF o.timer > 0 THEN [s |-> set_pose(s, reaction.pose), o |-> o]
    ELSE [s |-> set_pose(s, reaction.pose),
          o |-> [bubble |-> reaction.bubble, timer |-> reaction.duration,
                 duration |-> reaction.duration]]

\* ReactionManager.trigger_from_config: the pet's state and the overlay after
trigger_from_config(s, o, reaction) ==
    [s |-> set_pose(s, reaction.pose),
     o |-> [bubble |-> reaction.bubble, timer |-> reaction.duration,
            duration |-> reaction.duration]]

\* an overlay that leaves the pose alone while a behavior is active
reaction_update_yield(s, o, dt, default_pose) ==
    IF o.timer > 0
    THEN LET t == o.timer - dt
         IN  IF t <= 0
             THEN [s |-> IF active_behavior(s) \in {None, Idle}
                         THEN set_pose(s, default_pose) ELSE s,
                   o |-> [o EXCEPT !.timer = t, !.bubble = None]]
             ELSE [s |-> s, o |-> [o EXCEPT !.timer = t]]
    ELSE [s |-> s, o |-> o]

\* an overlay that counts down and reverts whether or not the timer runs
reaction_update_always(s, o, dt, default_pose) ==
    LET t == o.timer - dt
    IN  IF t <= 0
        THEN [s |-> set_pose(s, default_pose),
              o |-> [o EXCEPT !.timer = t, !.bubble = None]]
        ELSE [s |-> s, o |-> [o EXCEPT !.timer = t]]

\* ReactionManager.update
reaction_update(s, o, dt, default_pose) ==
    IF o.timer > 0
    THEN LET t == o.timer - dt
         IN  IF t <= 0
             THEN [s |-> set_pose(s, default_pose),
                   o |-> [o EXCEPT !.timer = t, !.bubble = None]]
             ELSE [s |-> s, o |-> [o EXCEPT !.timer = t]]
    ELSE [s |-> s, o |-> o]

\* an apply_action that falls back to "pets" for a key it does not know
apply_action_default(s, o, action_key, rm) ==
    LET action == Actions(IF action_key \in ActionKeys THEN action_key ELSE "pets")
        s1 == [s EXCEPT !.stats = ApplyDeltas(@, action.stats)]
    IN  IF rm
        THEN LET r == trigger_from_config(s1, o, action)
             IN  [s |-> r.s, o |-> r.o, ret |-> TRUE]
        ELSE [s |-> s1, o |-> o, ret |-> TRUE]

\* apply_action; rm: a reaction manager is passed
apply_action(s, o, action_key, rm) ==
    IF action_key \notin ActionKeys THEN [s |-> s, o |-> o, ret |-> FALSE]
    ELSE LET action == Actions(action_key)
             s1 == [s EXCEPT !.stats = ApplyDeltas(@, action.stats)]
         IN  IF rm
             THEN LET r == trigger_from_config(s1, o, action)
                  IN  [s |-> r.s, o |-> r.o, ret |-> TRUE]
             ELSE [s |-> s1, o |-> o, ret |-> TRUE]

-----------------------------------------------------------------------------
(* The state machine *)

InitPose == "sitting.forward.neutral"

\* the stats the context can be created with, in stat points
InitPlayfulness == {2, 80}
InitComfort == {30, 99}

NoRun == [state |-> "none", steps |-> <<>>, stats0 |-> [n \in StatNames |-> 0],
          pose0 |-> None, cb |-> None]

NoProbe == [kind |-> "none", list |-> <<>>, key |-> <<>>, out |-> 0]

NoReaction == [key |-> None, elapsed |-> 0, default |-> None,
               overwritten |-> FALSE, others |-> FALSE]

\* a construction that sets last_trigger_time to 0
InitWithoutLead(affection) ==
    /\ current_time = 0
    /\ time_since_check = 0
    /\ active = [b \in Names |-> FALSE]
    /\ phase = [b \in Names |-> None]
    /\ phase_timer = [b \in Names |-> 0]
    /\ progress = [b \in Names |-> 0]
    /\ pose_before = [b \in Names |-> None]
    /\ on_complete = [b \in Names |-> None]
    /\ last_trigger_time = [b \in Names |-> 0]
    /\ pose_name = InitPose
    /\ \E p \in InitPlayfulness, c \in InitComfort :
          stats = [n \in StatNames |->
                      StatUnit * (CASE n = "playfulness" -> p
                                    [] n = "comfort" -> c
                                    [] n = "energy" -> 1
                                    [] n = "affection" -> affection
                                    [] OTHER -> 50)]
    /\ override_next_behavior = None
    /\ reaction_bubble = None
    /\ reaction_timer = 0
    /\ reaction_duration = 0
    /\ call = [op |-> "init", arg |-> None, ret |-> FALSE, log |-> <<>>]
    /\ external_calls = 0
    /\ play_run = NoRun
    /\ callbacks = [b \in Names |-> 0]
    /\ reaction_run = NoReaction
    /\ probe = NoProbe

InitWith(affection) ==
    /\ current_time = 0
    /\ time_since_check = 0
    /\ active = [b \in Names |-> FALSE]
    /\ phase = [b \in Names |-> None]
    /\ phase_timer = [b \in Names |-> 0]
    /\ progress = [b \in Names |-> 0]
    /\ pose_before = [b \in Names |-> None]
    /\ on_complete = [b \in Names |-> None]
    /\ last_trigger_time = [b \in Names |-> -(COOLDOWN(b) * TicksPerSecond)]
    /\ pose_name = InitPose
    /\ \E p \in InitPlayfulness, c \in InitComfort :
          stats = [n \in StatNames |->
                      StatUnit * (CASE n = "playfulness" -> p
                                    [] n = "comfort" -> c
                                    [] n = "energy" -> 1
                                    [] n = "affection" -> affection
                                    [] OTHER -> 50)]
    /\ override_next_behavior = None
    /\ reaction_bubble = None
    /\ reaction_timer = 0
    /\ reaction_duration = 0
    /\ call = [op |-> "init", arg |-> None, ret |-> FALSE, log |-> <<>>]
    /\ external_calls = 0
    /\ play_run = NoRun
    /\ callbacks = [b \in Names |-> 0]
    /\ reaction_run = NoReaction
    /\ probe = NoProbe

Init == InitWith(50)

\* the program's fields become those of s
Becomes(s) ==
    /\ current_time' = s.current_time
    /\ time_since_check' = s.time_since_check
    /\ active' = s.active
    /\ phase' = s.phase
    /\ phase_timer' = s.phase_timer
    /\ progress' = s.progress
    /\ pose_before' = s.pose_before
    /\ on_complete' = s.on_complete
    /\ last_trigger_time' = s.last_trigger_time
    /\ pose_name' = s.pose_name
    /\ stats' = s.stats
    /\ override_next_behavior' = s.override_next_behavior

Has(log, ev, b) == \E i \in DOMAIN log : log[i].ev = ev /\ log[i].b = b

\* the history of the run of Playing, after a call that left the state s
RunAfter(run, op, arg, s) ==
    IF Has(s.log, "start", "playing")
    THEN [state |-> "open", steps |-> <<>>, stats0 |-> s.stats,
          pose0 |-> s.pose_before["playing"], cb |-> s.on_complete["playing"]]
    ELSE IF run.state = "open" /\ op = "update"
         THEN [run EXCEPT !.steps = Append(@, arg),
                          !.state = IF s.active["playing"] THEN "open" ELSE "completed"]
         ELSE IF run.state = "open" /\ s.active["playing"] THEN run ELSE NoRun

CallbacksIn(log) == Len(SelectSeq(log, LAMBDA e : e.ev = "callback"))

\* the callbacks invoked since each behavior's last start, after the calls of
\* the log
RECURSIVE CallbacksAfter(_, _)
CallbacksAfter(cnt, log) ==
    IF log = <<>> THEN cnt
    ELSE LET e == Head(log)
         IN  CallbacksAfter(
                 CASE e.ev = "start" -> [cnt EXCEPT ![e.b] = 0]
                   [] e.ev = "stop" -> [cnt EXCEPT ![e.b] = @ + CallbacksIn(e.inner)]
                   [] OTHER -> cnt,
                 Tail(log))

\* the reaction of the run is armed: less than its duration has been counted
Armed(run) == run.key # None /\ run.elapsed < Actions(run.key).duration

\* a call that left the state s started a non-idle behavior
StartIn(s) == \E b \in Names \ {Idle} : Has(s.log, "start", b)

\* a call that left the state s moved an active behavior to another phase
PhaseChange(s) ==
    \E b \in Names : active[b] /\ s.active[b] /\ s.phase[b] # phase[b]

\* the history of the reaction, after a scheduler or behavior call that left
\* the state s
ReactionAfterCall(run, s) ==
    IF run.key = None \/ s.pose_name = pose_name THEN run
    ELSE [run EXCEPT !.others = TRUE,
                     !.overwritten =
                         \/ @
                         \/ /\ Armed(run)
                            /\ pose_name = Actions(run.key).pose
                            /\ StartIn(s) \/ PhaseChange(s)]

\* the history of the reaction, after an overlay update by dt
ReactionAfterUpdate(run, dt, default_pose) ==
    IF ~Armed(run) THEN run
    ELSE LET D == Actions(run.key).duration
             expires == run.elapsed + dt >= D
         IN  [run EXCEPT !.elapsed = Min(D, @ + dt),
                         !.default = IF expires THEN default_pose ELSE @,
                         !.others = IF expires THEN FALSE ELSE @]

\* the history variables after a scheduler or behavior call that left s
HistoryAfter(s) ==
    /\ callbacks' = CallbacksAfter(callbacks, s.log)
    /\ reaction_run' = ReactionAfterCall(reaction_run, s)

\* the game loop calls scheduler.update(dt)
UpdateCall(dt) ==
    LET s == update(Cur, dt)
    IN  /\ Becomes(s)
        /\ call' = [op |-> "update", arg |-> dt, ret |-> FALSE, log |-> s.log]
        /\ play_run' = RunAfter(play_run, "update", dt, s)
        /\ HistoryAfter(s)
        /\ UNCHANGED <<reaction_bubble, reaction_timer, reaction_duration,
                       external_calls, probe>>

Update(dt) ==
    /\ current_time + dt <= MaxTime
    /\ UpdateCall(dt)

\* a caller calls scheduler.trigger(name)
Trigger(name) ==
    /\ external_calls < MaxExternal
    /\ external_calls' = external_calls + 1
    /\ LET r == trigger(Cur, name)
       IN  /\ Becomes(r.s)
           /\ call' = [op |-> "trigger", arg |-> name, ret |-> r.ret, log |-> r.s.log]
           /\ play_run' = RunAfter(play_run, "trigger", name, r.s)
           /\ HistoryAfter(r.s)
    /\ UNCHANGED <<reaction_bubble, reaction_timer, reaction_duration, probe>>

\* a caller writes context.override_next_behavior
SetOverride(name) ==
    /\ external_calls < MaxExternal
    /\ external_calls' = external_calls + 1
    /\ Becomes([Cur EXCEPT !.override_next_behavior = name])
    /\ call' = [op |-> "set_override", arg |-> name, ret |-> FALSE, log |-> <<>>]
    /\ play_run' = RunAfter(play_run, "set_override", name, Cur)
    /\ UNCHANGED <<reaction_bubble, reaction_timer, reaction_duration, callbacks,
                   reaction_run, probe>>

Next ==
    \/ \E dt \in DtSet : Update(dt)
    \/ \E name \in Names \cup {Unregistered} : Trigger(name)
    \/ \E name \in (Names \ {Idle}) \cup {Unregistered} : SetOverride(name)

Spec == Init /\ [][Next]_vars

\* the game loop alone, over a longer time
UpdateLong(dt) ==
    /\ current_time + dt <= MaxTimeAuto
    /\ UpdateCall(dt)

NextAuto == \E dt \in DtSet : UpdateLong(dt)

SpecAuto == Init /\ [][NextAuto]_vars

\* the game loop with updates of 1 s and 7 s
UpdateStep(dt) ==
    /\ current_time + dt <= MaxTimeStep
    /\ UpdateCall(dt)

NextStep ==
    \/ \E dt \in DtStep : UpdateStep(dt)
    \/ \E name \in Names \cup {Unregistered} : Trigger(name)

\* the game loop with long single updates, and a caller's trigger(name)
SpecStep == Init /\ [][NextStep]_vars

\* the game loop calls update again and again, with dt of 1 s or 5 s
UpdateLive(dt) ==
    /\ current_time + dt <= MaxTimeLive
    /\ UpdateCall(dt)

NextLive == \E dt \in DtLive : UpdateLive(dt)

\* the passing of the time of one update call
Tick == \E dt \in DtLive :
           /\ current_time + dt <= MaxTimeLive
           /\ current_time' = current_time + dt

\* the game loop alone, which never stops calling update: every step is an
\* update, and time passes as long as the model's time allows
SpecLive == Init /\ [][NextLive]_vars /\ WF_current_time(Tick)

\* the affection the context can be created with
InitAffection == {50, 95}

\* the context is created with Playing and Stretching both eligible
InitOverlay ==
    /\ \E a \in InitAffection : InitWith(a)
    /\ stats["playfulness"] > TRIGGER_THRESHOLD("playing") * StatUnit
    /\ stats["comfort"] < TRIGGER_THRESHOLD("stretching") * StatUnit

\* the keys apply_action is called with; "dance" is not in the registry
Keys == {"kiss", "toy", "dance"}
\* the dt values the overlay is updated with, in ticks: 0.5 s, 2 s
OverlayDts == {2, 8}
\* the default poses the overlay is updated with
DefaultPoses == {"sitting.forward.neutral", "sitting.forward.aloof"}

\* a caller calls apply_action(key, context, character, reaction_manager)
ApplyAction(key, rm) ==
    /\ external_calls < MaxActions
    /\ external_calls' = external_calls + 1
    /\ LET r == apply_action(Cur, Overlay, key, rm)
       IN  /\ Becomes(r.s)
           /\ reaction_bubble' = r.o.bubble
           /\ reaction_timer' = r.o.timer
           /\ reaction_duration' = r.o.duration
           /\ call' = [op |-> "apply_action", arg |-> <<key, rm>>, ret |-> r.ret,
                       log |-> <<>>]
           /\ reaction_run' = IF r.ret /\ rm THEN [NoReaction EXCEPT !.key = key]
                               ELSE reaction_run
           /\ play_run' = IF r.ret THEN NoRun ELSE play_run
    /\ UNCHANGED <<callbacks, probe>>

\* the game loop calls reaction_manager.update(dt, character, default_pose)
OverlayUpdate(dt, default_pose) ==
    LET r == reaction_update(Cur, Overlay, dt, default_pose)
    IN  /\ Becomes(r.s)
        /\ reaction_bubble' = r.o.bubble
        /\ reaction_timer' = r.o.timer
        /\ reaction_duration' = r.o.duration
        /\ call' = [op |-> "reaction_update", arg |-> <<dt, default_pose>>,
                    ret |-> FALSE, log |-> <<>>]
        /\ reaction_run' = ReactionAfterUpdate(reaction_run, dt, default_pose)
        /\ play_run' = IF r.s.pose_name # pose_name THEN NoRun ELSE play_run
        /\ UNCHANGED <<external_calls, callbacks, probe>>

UpdateOverlay(dt) ==
    /\ current_time + dt <= MaxTimeOverlay
    /\ UpdateCall(dt)

NextOverlay ==
    \/ \E dt \in DtSet : UpdateOverlay(dt)
    \/ \E key \in Keys, rm \in BOOLEAN : ApplyAction(key, rm)
    \/ \E dt \in OverlayDts, dp \in DefaultPoses : OverlayUpdate(dt, dp)

\* the game loop with the overlay, and a player's actions
SpecOverlay == InitOverlay /\ [][NextOverlay]_vars

\* the keys and the dt values of the runs of the overlay alone, in ticks:
\* 0 s, 0.5 s, 2 s
BubbleKeys == {"kiss", "toy", "psst", "dance"}
BubbleDts == {0, 2, 8}

\* a caller calls apply_action(key, context, character, reaction_manager);
\* the overlay and the pose it finds are kept in probe
ArmOverlay(key) ==
    /\ external_calls < MaxActions
    /\ external_calls' = external_calls + 1
    /\ LET r == apply_action(Cur, Overlay, key, TRUE)
       IN  /\ Becomes(r.s)
           /\ reaction_bubble' = r.o.bubble
           /\ reaction_timer' = r.o.timer
           /\ reaction_duration' = r.o.duration
           /\ call' = [op |-> "apply_action", arg |-> <<key, TRUE>>, ret |-> r.ret,
                       log |-> <<>>]
           /\ reaction_run' = IF r.ret THEN [NoReaction EXCEPT !.key = key]
                               ELSE reaction_run
           /\ play_run' = IF r.ret THEN NoRun ELSE play_run
    /\ probe' = [kind |-> "arm", list |-> <<reaction_timer>>,
                 key |-> <<reaction_bubble, pose_name>>, out |-> 0]
    /\ UNCHANGED callbacks

NextBubble ==
    \/ \E key \in BubbleKeys : ArmOverlay(key)
    \/ \E dt \in BubbleDts, dp \in DefaultPoses : OverlayUpdate(dt, dp)

\* the overlay alone: a player's actions and the overlay's updates
SpecBubble == InitOverlay /\ [][NextBubble]_vars

\* a caller calls behavior.start(on_complete) on a behavior it holds
DirectStart(b, cb) ==
    /\ external_calls < MaxDirect
    /\ external_calls' = external_calls + 1
    /\ LET s == start(Cur, b, cb)
       IN  /\ Becomes(s)
           /\ call' = [op |-> "start", arg |-> <<b, cb>>, ret |-> FALSE, log |-> s.log]
           /\ play_run' = RunAfter(play_run, "start", b, s)
           /\ HistoryAfter(s)
    /\ UNCHANGED <<reaction_bubble, reaction_timer, reaction_duration, probe>>

\* a caller calls behavior.stop(completed) on a behavior it holds
DirectStop(b, completed) ==
    /\ external_calls < MaxDirect
    /\ external_calls' = external_calls + 1
    /\ LET s == stop(Cur, b, completed)
       IN  /\ Becomes(s)
           /\ call' = [op |-> "stop", arg |-> <<b, completed>>, ret |-> FALSE,
                       log |-> s.log]
           /\ play_run' = RunAfter(play_run, "stop", b, s)
           /\ HistoryAfter(s)
    /\ UNCHANGED <<reaction_bubble, reaction_timer, reaction_duration, probe>>

UpdateDirect(dt) ==
    /\ current_time + dt <= MaxTimeDirect
    /\ UpdateCall(dt)

\* a player's kiss, between the direct calls
KissDirect ==
    /\ external_calls < MaxDirect
    /\ ApplyAction("kiss", TRUE)

NextDirect ==
    \/ \E dt \in DtSet : UpdateDirect(dt)
    \/ KissDirect
    \/ \E b \in Names, cb \in {None, Handler, External} : DirectStart(b, cb)
    \/ \E b \in Names, completed \in BOOLEAN : DirectStop(b, completed)

\* the game loop, and callers that start and stop the behaviors directly
SpecDirect == Init /\ [][NextDirect]_vars

-----------------------------------------------------------------------------
(* Functions of the program applied on their own to inputs of any value *)

\* the candidates, numbered in registration order, that an eligible list holds
CandidateLists ==
    {SelectSeq([i \in 1..MaxItems |-> i], LAMBDA i : i \in S) :
        S \in SUBSET (1..MaxItems) \ {{}}}

\* the priorities of the registered behaviors
Priorities == {PRIORITY(b) : b \in Names}

\* eligible.sort(key=lambda b: b.PRIORITY); best = eligible[0]
SelectProbe(list, key) ==
    /\ probe.kind = "none"
    /\ probe' = [kind |-> "best", list |-> list, key |-> key,
                 out |-> BestBy(list, key)]
    /\ UNCHANGED <<current_time, time_since_check, active, phase, phase_timer,
                   progress, pose_before, on_complete, last_trigger_time,
                   pose_name, stats, override_next_behavior, reaction_bubble,
                   reaction_timer, reaction_duration, call, external_calls,
                   play_run, callbacks, reaction_run>>

NextSelect ==
    \/ \E dt \in DtSet : Update(dt)
    \/ \E list \in CandidateLists, key \in [1..MaxItems -> Priorities] :
          SelectProbe(list, key)

SpecSelect == Init /\ [][NextSelect]_vars

\* the values of a trigger stat, in stat units, around the thresholds
ProbeValues ==
    {0, 100 * StatUnit} \cup
    {TRIGGER_THRESHOLD(b) * StatUnit + d : b \in Names \ {Idle}, d \in {-1, 0, 1}}
\* the time since the last trigger, in ticks, relative to the cooldown
ProbeElapsed == {-1, 0, 1}

\* behavior.can_trigger(context, now) with the trigger stat at value and the
\* last trigger at now - COOLDOWN - before
CanProbe(b, value, before) ==
    /\ probe.kind = "none"
    /\ LET elapsed == COOLDOWN(b) * TicksPerSecond + before
           s == IF TRIGGER_STAT(b) = None THEN Cur
                ELSE [Cur EXCEPT !.stats[TRIGGER_STAT(b)] = value]
       IN  probe' = [kind |-> "can", list |-> <<b, value, elapsed>>, key |-> <<>>,
                     out |-> can_trigger(s, b, s.last_trigger_time[b] + elapsed)]
    /\ UNCHANGED <<current_time, time_since_check, active, phase, phase_timer,
                   progress, pose_before, on_complete, last_trigger_time,
                   pose_name, stats, override_next_behavior, reaction_bubble,
                   reaction_timer, reaction_duration, call, external_calls,
                   play_run, callbacks, reaction_run>>

NextCan ==
    \/ \E dt \in DtSet : Update(dt)
    \/ \E b \in Names, value \in ProbeValues, before \in ProbeElapsed :
          CanProbe(b, value, before)

SpecCan == Init /\ [][NextCan]_vars

\* rates (doubled), bonuses and deltas of any sign and magnitude
Magnitudes == {-10000, -7, 3, 10000}
\* dt in ticks, progress in units of 1/ProgressOne
ProbeDts == {1, 60}
ProbeProgress == {-ProgressOne, 5, ProgressOne, 100 * ProgressOne}
\* the stats written
ProbeStats == {"playfulness", "comfort"}

StatWrite(op, n, amount, scale, st) ==
    /\ external_calls < MaxWrites
    /\ external_calls' = external_calls + 1
    /\ stats' = st
    /\ call' = [op |-> op, arg |-> <<n, amount, scale>>, ret |-> FALSE, log |-> <<>>]
    /\ UNCHANGED <<current_time, time_since_check, active, phase, phase_timer,
                   progress, pose_before, on_complete, last_trigger_time,
                   pose_name, override_next_behavior, reaction_bubble,
                   reaction_timer, reaction_duration, play_run, callbacks,
                   reaction_run, probe>>

\* apply_stat_effects with STAT_EFFECTS = {n: rate / 2}
WriteEffects(n, rate, dt) ==
    StatWrite("apply_stat_effects", n, rate, dt,
              ApplyRates(stats, [x \in {n} |-> rate], dt))

\* apply_completion_bonus with COMPLETION_BONUS = {n: bonus}
WriteBonus(n, bonus, prog) ==
    StatWrite("apply_completion_bonus", n, bonus, prog,
              ApplyBonus(stats, [x \in {n} |-> bonus], prog))

\* the stat loop of apply_action with "stats": {n: delta}
WriteDelta(n, delta) ==
    StatWrite("apply_action", n, delta, 1, ApplyDeltas(stats, [x \in {n} |-> delta]))

NextClamp ==
    \/ \E n \in ProbeStats, rate \in Magnitudes, dt \in ProbeDts : WriteEffects(n, rate, dt)
    \/ \E n \in ProbeStats, bonus \in Magnitudes, prog \in ProbeProgress :
          WriteBonus(n, bonus, prog)
    \/ \E n \in ProbeStats, delta \in Magnitudes : WriteDelta(n, delta)

SpecClamp == Init /\ [][NextClamp]_vars

\* the two orders in which a tick can reach the two writers
Orders == {"action_first", "behavior_first"}

\* a tick that adds the action's delta and the behavior's rate in one sum
WritePairMerged(n, delta, rate, dt, order) ==
    /\ external_calls < MaxWrites
    /\ external_calls' = external_calls + 1
    /\ stats' = [stats EXCEPT ![n] =
                    Clamp(@ + delta * StatUnit
                            + (rate * StatUnit * dt) \div (2 * TicksPerSecond))]
    /\ call' = [op |-> "tick", arg |-> <<n, delta, rate, dt, order>>,
                ret |-> FALSE, log |-> <<>>]
    /\ probe' = [kind |-> "pair", list |-> <<stats[n], delta, rate, dt>>,
                 key |-> <<order>>, out |-> stats'[n]]
    /\ UNCHANGED <<current_time, time_since_check, active, phase, phase_timer,
                   progress, pose_before, on_complete, last_trigger_time,
                   pose_name, override_next_behavior, reaction_bubble,
                   reaction_timer, reaction_duration, play_run, callbacks,
                   reaction_run>>

\* one tick in which apply_action with "stats": {n: delta} and
\* apply_stat_effects with STAT_EFFECTS = {n: rate / 2} are both called, in
\* the order given
WritePair(n, delta, rate, dt, order) ==
    /\ external_calls < MaxWrites
    /\ external_calls' = external_calls + 1
    /\ stats' = IF order = "action_first"
                THEN ApplyRates(ApplyDeltas(stats, [x \in {n} |-> delta]),
                                [x \in {n} |-> rate], dt)
                ELSE ApplyDeltas(ApplyRates(stats, [x \in {n} |-> rate], dt),
                                 [x \in {n} |-> delta])
    /\ call' = [op |-> "tick", arg |-> <<n, delta, rate, dt, order>>,
                ret |-> FALSE, log |-> <<>>]
    /\ probe' = [kind |-> "pair", list |-> <<stats[n], delta, rate, dt>>,
                 key |-> <<order>>, out |-> stats'[n]]
    /\ UNCHANGED <<current_time, time_since_check, active, phase, phase_timer,
                   progress, pose_before, on_complete, last_trigger_time,
                   pose_name, override_next_behavior, reaction_bubble,
                   reaction_timer, reaction_duration, play_run, callbacks,
                   reaction_run>>

NextOrder ==
    \E n \in ProbeStats, delta \in Magnitudes, rate \in Magnitudes,
       dt \in ProbeDts, order \in Orders : WritePair(n, delta, rate, dt, order)

\* ticks in which an action and a behavior write the same stat
SpecOrder == Init /\ [][NextOrder]_vars

-----------------------------------------------------------------------------
(* Properties *)

ActiveSet == {b \in Names : active[b]}

\* C1: in every state reached by update and trigger calls, at most one
\* behavior (idle included) is active
C1_AtMostOneActive == Cardinality(ActiveSet) <= 1

\* a trigger has just replaced an active non-idle behavior by another one
C1_Witness ==
    /\ call.op = "trigger"
    /\ call.ret
    /\ \E i \in DOMAIN call.log :
          call.log[i].ev = "stop" /\ call.log[i].b \notin {Idle, call.arg}
    /\ ActiveSet = {call.arg}

\* the stops of the last call that were natural completions of a behavior
\* started by automatic selection (it holds the scheduler's handler)
AutoCompletions ==
    {i \in DOMAIN call.log :
        /\ call.log[i].ev = "stop"
        /\ call.log[i].completed
        /\ call.log[i].cb = Handler}

BonusesIn(log) == SelectSeq(log, LAMBDA e : e.ev = "bonus")

\* C2: when an automatically started behavior completes naturally, the bonus
\* applied is its own COMPLETION_BONUS, scaled by its final progress, once
C2_BonusIsOwn ==
    \A i \in AutoCompletions :
        LET e == call.log[i]
        IN  DOMAIN COMPLETION_BONUS(e.b) # {} =>
                BonusesIn(e.inner) =
                    <<Event("bonus", e.b, TRUE, e.progress, None, FALSE, <<>>)>>

\* C3: automatic selection starts a behavior only when its cooldown has
\* elapsed since its last trigger, which the start then sets to the current
\* time: two automatic starts of a behavior are at least COOLDOWN apart
C3_CooldownRespected ==
    [][\A b \in Names :
          Has(call'.log, "auto", b) =>
              /\ current_time' - last_trigger_time[b] >= COOLDOWN(b) * TicksPerSecond
              /\ last_trigger_time'[b] = current_time'
              /\ active'[b]]_vars

\* an automatic check has just passed over a behavior whose threshold is met
\* and whose cooldown has not elapsed
C3_Witness ==
    /\ Has(call.log, "check", None)
    /\ \E b \in Names \ {Idle} :
          /\ ThresholdMet(Cur, b)
          /\ current_time - last_trigger_time[b] < COOLDOWN(b) * TicksPerSecond
          /\ ~Has(call.log, "auto", b)
          /\ ~active[b]

Index(b) == CHOOSE i \in 1..Len(Registered) : Registered[i] = b

\* b is selected before c: smaller PRIORITY, or the same and registered earlier
Precedes(b, c) ==
    \/ PRIORITY(b) < PRIORITY(c)
    \/ PRIORITY(b) = PRIORITY(c) /\ Index(b) < Index(c)

\* C4: the behavior an automatic selection starts is never idle, meets its
\* threshold, and precedes every other eligible behavior: smallest PRIORITY,
\* and among equal priorities the earliest registered; applied to any
\* eligible list and any priorities, the selection returns the first element
\* of smallest priority
C4_SelectsBest ==
    /\ \A b \in Names :
          Has(call.log, "auto", b) =>
              /\ b # Idle
              /\ TRIGGER_STAT(b) # None
              /\ ThresholdMet(Cur, b)
              /\ active[b]
              /\ on_complete[b] = Handler
              /\ \A c \in Names \ {b, Idle} :
                    can_trigger(Cur, c, current_time) => Precedes(b, c)
    /\ probe.kind = "best" =>
          \E i \in DOMAIN probe.list :
              /\ probe.out = probe.list[i]
              /\ \A j \in DOMAIN probe.list :
                    \/ probe.key[probe.list[i]] < probe.key[probe.list[j]]
                    \/ /\ probe.key[probe.list[i]] = probe.key[probe.list[j]]
                       /\ i <= j

\* an automatic selection has just started Playing while Stretching was
\* eligible too
C4_Witness ==
    /\ Has(call.log, "auto", "playing")
    /\ active["playing"]
    /\ can_trigger(Cur, "stretching", current_time)

\* C5: trigger(B) while another behavior A is active stops A as interrupted,
\* applies no bonus and changes no stat, and leaves B active in its first
\* phase with timer 0, progress 0 and pose_before = the pose held at the call
C5_TriggerInterrupts ==
    [][(/\ call'.op = "trigger"
        /\ call'.arg \in Names
        /\ active_behavior(Cur) \notin {None, call'.arg})
       => LET A == active_behavior(Cur)
              B == call'.arg
          IN  /\ call'.ret
              /\ ~active'[A]
              /\ \E i \in DOMAIN call'.log :
                    /\ call'.log[i].ev = "stop"
                    /\ call'.log[i].b = A
                    /\ ~call'.log[i].completed
              /\ BonusesIn(call'.log) = <<>>
              /\ stats' = stats
              /\ active'[B]
              /\ phase'[B] = FirstPhase(B)
              /\ phase_timer'[B] = 0
              /\ progress'[B] = 0
              /\ pose_before'[B] = pose_name]_vars

\* trigger("playing") has just interrupted Stretching in its main phase
C5_Witness ==
    /\ call.op = "trigger"
    /\ call.arg = "playing"
    /\ Has(call.log, "stop", "stretching")
    /\ active["playing"]
    /\ pose_before["playing"] = "leaning_forward.side.stretch"

RECURSIVE SumSeq(_)
SumSeq(q) == IF q = <<>> THEN 0 ELSE Head(q) + SumSeq(Tail(q))

\* the run of Playing has been advanced by 7.0 s and was not interrupted
RunOf7s ==
    /\ play_run.state \in {"open", "completed"}
    /\ SumSeq(play_run.steps) = excited_duration + play_duration + tired_duration

\* the steps of the run end the first phase at 1.0 s and the second at 6.0 s
HitsPhaseEnds ==
    \E i, j \in DOMAIN play_run.steps :
        /\ SumSeq(SubSeq(play_run.steps, 1, i)) = excited_duration
        /\ SumSeq(SubSeq(play_run.steps, 1, j)) = excited_duration + play_duration

C7_EveryCompletionGetsBonus ==
    \A i \in DOMAIN call.log :
        (/\ call.log[i].ev = "stop"
         /\ call.log[i].completed
         /\ DOMAIN COMPLETION_BONUS(call.log[i].b) # {})
        => BonusesIn(call.log[i].inner) # <<>>

\* C8: trigger of an unregistered name returns false and changes no behavior
\* and not the pose
C8_UnknownNameChangesNothing ==
    [][(call'.op = "trigger" /\ call'.arg \notin Names)
       => /\ ~call'.ret
          /\ UNCHANGED <<active, phase, phase_timer, progress, pose_before,
                         on_complete, pose_name>>]_vars

\* C9: after every stat write, of any rate, bonus, delta, dt and progress,
\* every stat is in [0, 100]
C9_StatsInRange == \A n \in StatNames : 0 <= stats[n] /\ stats[n] <= 100 * StatUnit

\* a write far above 100 and a write far below 0 have just been clamped
C9_Witness ==
    /\ call.op \in {"apply_stat_effects", "apply_completion_bonus", "apply_action"}
    /\ call.arg[2] \in {-10000, 10000}
    /\ \E n \in ProbeStats : stats[n] = 100 * StatUnit
    /\ \E n \in ProbeStats : stats[n] = 0

\* C10: a stop with completed = false leaves the pose and every stat as they
\* were and applies no bonus; a stored callback is called once, with
\* completed = false and the behavior's progress
C10_InterruptionKeeps ==
    \A i \in DOMAIN call.log :
        LET e == call.log[i]
        IN  (e.ev = "stop" /\ ~e.completed) =>
                /\ e.kept
                /\ BonusesIn(e.inner) = <<>>
                /\ SelectSeq(e.inner, LAMBDA x : x.ev = "callback") =
                      IF e.cb = None THEN <<>>
                      ELSE <<Event("callback", None, FALSE, e.progress, e.cb,
                                   FALSE, <<>>)>>

\* a trigger has just interrupted a behavior that held the completion handler
\* and had made progress
C10_Witness ==
    \E i \in DOMAIN call.log :
        /\ call.log[i].ev = "stop"
        /\ ~call.log[i].completed
        /\ call.log[i].cb = Handler
        /\ call.log[i].progress > 0
        /\ pose_name # InitPose

\* C11: stop on an inactive behavior changes nothing and calls nothing, so
\* between two starts of a behavior its callback is invoked at most once
C11_StopOnceOnly ==
    /\ [](\A b \in Names : callbacks[b] <= 1)
    /\ [][(call'.op = "stop" /\ ~active[call'.arg[1]])
          => /\ call'.log = <<>>
             /\ UNCHANGED <<current_time, time_since_check, active, phase,
                            phase_timer, progress, pose_before, on_complete,
                            last_trigger_time, pose_name, stats,
                            override_next_behavior, reaction_bubble,
                            reaction_timer, reaction_duration, callbacks>>]_vars

\* stop has just been called on a behavior that an earlier stop had ended,
\* calling its callback
C11_Witness ==
    /\ call.op = "stop"
    /\ call.log = <<>>
    /\ ~active[call.arg[1]]
    /\ callbacks[call.arg[1]] = 1

\* no non-idle behavior is active
NoneButIdle == active_behavior(Cur) \in {None, Idle}

\* C12: an update that begins with no non-idle behavior active returns with
\* exactly one behavior active: the override target, the behavior selected
\* automatically, or idle
C12_OneActiveAfterUpdate ==
    [][(call'.op = "update" /\ NoneButIdle)
       => \E b \in Names :
             /\ {c \in Names : active'[c]} = {b}
             /\ \/ b = override_next_behavior
                \/ Has(call'.log, "auto", b)
                \/ b = Idle]_vars

\* an update has just found an unregistered name in the override slot, which
\* stopped idle, and has started idle again
C12_Witness ==
    /\ call.op = "update"
    /\ Has(call.log, "stop", Idle)
    /\ Has(call.log, "start", Idle)
    /\ ActiveSet = {Idle}

\* C13: an update that begins with no non-idle behavior active and a name in
\* the override slot empties the slot; a registered name is started whatever
\* its cooldown and threshold, with no automatic check and no start of idle
C13_OverrideOnce ==
    [][(call'.op = "update" /\ NoneButIdle /\ override_next_behavior # None)
       => /\ override_next_behavior' = None
          /\ override_next_behavior \in Names =>
                LET b == override_next_behavior
                IN  /\ {c \in Names : active'[c]} = {b}
                    /\ Has(call'.log, "start", b)
                    /\ phase'[b] = FirstPhase(b)
                    /\ last_trigger_time'[b] = current_time'
                    /\ ~Has(call'.log, "check", None)
                    /\ \A c \in Names : ~Has(call'.log, "auto", c)
                    /\ b # Idle => ~Has(call'.log, "start", Idle)
                    /\ time_since_check' = time_since_check]_vars

\* an update has just started, from the override slot, a behavior whose
\* threshold is not met
C13_Witness ==
    /\ call.op = "update"
    /\ override_next_behavior = None
    /\ \E b \in Names \ {Idle} :
          /\ Has(call.log, "start", b)
          /\ ~Has(call.log, "auto", b)
          /\ active[b]
          /\ ~ThresholdMet(Cur, b)

\* C14: an update that begins with a non-idle behavior active advances it and
\* applies its stat effects, and nothing else: the override slot and the
\* check counter are as before, no automatic check is made, nothing is started
C14_ActiveOnlyAdvances ==
    [][(call'.op = "update" /\ ~NoneButIdle)
       => LET act == active_behavior(Cur)
          IN  /\ override_next_behavior' = override_next_behavior
              /\ time_since_check' = time_since_check
              /\ Has(call'.log, "effects", act)
              /\ ~Has(call'.log, "check", None)
              /\ \A b \in Names :
                    /\ ~Has(call'.log, "start", b)
                    /\ ~Has(call'.log, "auto", b)
                    /\ b # act => /\ ~active'[b]
                                  /\ phase'[b] = phase[b]
                                  /\ phase_timer'[b] = phase_timer[b]
                    /\ last_trigger_time'[b] = last_trigger_time[b]]_vars

\* an update has just advanced Stretching while Playing, of higher priority,
\* was eligible
C14_Witness ==
    /\ call.op = "update"
    /\ active["stretching"]
    /\ ~Has(call.log, "start", "stretching")
    /\ can_trigger(Cur, "playing", current_time)
    /\ PRIORITY("playing") < PRIORITY("stretching")

C16_UnknownKeyNoMutation ==
    [][(call'.op = "apply_action" /\ call'.arg[1] \notin ActionKeys)
       => /\ ~call'.ret
          /\ UNCHANGED <<stats, pose_name, reaction_bubble, reaction_timer,
                         reaction_duration, current_time, time_since_check,
                         active, phase, phase_timer, progress, pose_before,
                         on_complete, last_trigger_time,
                         override_next_behavior>>]_vars

\* apply_action has just been called with an unknown key while the overlay
\* was armed
C16_Witness ==
    /\ call.op = "apply_action"
    /\ call.arg[1] \notin ActionKeys
    /\ ~call.ret
    /\ reaction_bubble # None
    /\ reaction_timer > 0

\* C17: apply_action("kiss") with an overlay sets affection to
\* min(100, affection + 10), the pose to "sitting.forward.happy", the bubble
\* to "heart" and the timer to 2.5 s; while the overlay updates since then sum
\* to less than 2.5 s the bubble is "heart", and once they reach 2.5 s the
\* bubble is cleared and the pose, unless a behavior has changed it since, is
\* the default pose supplied to the update that reached it
C17_KissReaction ==
    /\ [][(call'.op = "apply_action" /\ call'.arg = <<"kiss", TRUE>>)
          => /\ call'.ret
             /\ stats' = [stats EXCEPT !["affection"] =
                                          Min(100 * StatUnit, @ + 10 * StatUnit)]
             /\ pose_name' = "sitting.forward.happy"
             /\ reaction_bubble' = "heart"
             /\ reaction_timer' = (5 * TicksPerSecond) \div 2]_vars
    /\ [](reaction_run.key = "kiss" =>
             IF reaction_run.elapsed < (5 * TicksPerSecond) \div 2
             THEN reaction_bubble = "heart"
             ELSE /\ reaction_bubble = None
                  /\ ~reaction_run.others => pose_name = reaction_run.default)

\* overlay updates of 0.5 s have just brought the time since a kiss, which
\* was clamped at affection 100, to 2.5 s, and the pose is the default
C17_Witness ==
    /\ reaction_run.key = "kiss"
    /\ call.op = "reaction_update"
    /\ call.arg[1] = TicksPerSecond \div 2
    /\ reaction_run.elapsed = (5 * TicksPerSecond) \div 2
    /\ reaction_timer = 0
    /\ reaction_bubble = None
    /\ pose_name = call.arg[2]
    /\ pose_name # InitPose
    /\ stats["affection"] = 100 * StatUnit

\* C18: the scheduler and the overlay write the pose without regard for each
\* other: a call that starts a non-idle behavior or moves it to its next phase
\* sets that phase's pose and leaves the overlay armed as it was, and an
\* overlay update that reaches zero sets the default pose and leaves every
\* behavior as it was, so that each can overwrite the pose of the other
C18_PoseWritersRace ==
    /\ [][call'.op \in {"update", "trigger"} =>
            /\ UNCHANGED <<reaction_bubble, reaction_timer, reaction_duration>>
            /\ \A b \in Names \ {Idle} :
                  (active'[b] /\ (Has(call'.log, "start", b) \/ phase'[b] # phase[b]))
                  => pose_name' = PhasePose(b, phase'[b])]_vars
    /\ [][call'.op = "reaction_update" =>
            /\ UNCHANGED <<active, phase, phase_timer, progress, pose_before,
                           on_complete, last_trigger_time, stats>>
            /\ (reaction_timer > 0 /\ reaction_timer' <= 0)
                  => pose_name' = call'.arg[2]]_vars

\* a behavior has overwritten the reaction's pose while the overlay was armed,
\* and the overlay has then, reaching zero, replaced the pose of the active
\* behavior's phase by the default pose
C18_Witness ==
    /\ reaction_run.overwritten
    /\ call.op = "reaction_update"
    /\ reaction_bubble = None
    /\ ~reaction_run.others
    /\ pose_name = reaction_run.default
    /\ \E b \in Names \ {Idle} :
          /\ active[b]
          /\ PhasePose(b, phase[b]) # pose_name

\* C19: can_trigger is false while the cooldown has not elapsed, false for
\* a behavior with no trigger stat, and otherwise true exactly when the stat
\* is strictly below (TRIGGER_BELOW) or strictly above the threshold:
\* playfulness = 70 and comfort = 40 are not eligible
C19_CanTrigger ==
    probe.kind = "can" =>
        LET b == probe.list[1]
            value == probe.list[2]
            elapsed == probe.list[3]
            cooled == elapsed >= COOLDOWN(b) * TicksPerSecond
        IN  /\ ~cooled => ~probe.out
            /\ TRIGGER_STAT(b) = None => ~probe.out
            /\ (cooled /\ TRIGGER_STAT(b) # None) =>
                  (probe.out <=>
                      IF TRIGGER_BELOW(b)
                      THEN value < TRIGGER_THRESHOLD(b) * StatUnit
                      ELSE value > TRIGGER_THRESHOLD(b) * StatUnit)
            /\ (b = "playing" /\ elapsed >= 60 * TicksPerSecond) =>
                  (probe.out <=> value > 70 * StatUnit)
            /\ (b = "stretching" /\ elapsed >= 45 * TicksPerSecond) =>
                  (probe.out <=> value < 40 * StatUnit)

\* can_trigger has just returned false for Playing with its cooldown elapsed
\* and playfulness equal to the threshold
C19_Witness ==
    /\ probe.kind = "can"
    /\ probe.list = <<"playing", 70 * StatUnit, 60 * TicksPerSecond>>
    /\ ~probe.out

C22_CompletionRestores ==
    [][\A i \in DOMAIN call'.log :
          LET e == call'.log[i]
              b == e.b
          IN  (/\ e.ev = "stop"
               /\ e.completed
               /\ active[b]
               /\ ~Has(call'.log, "start", b))
              => /\ pose_before[b] # None => pose_name' = pose_before[b]
                 /\ ~active'[b]
                 /\ on_complete'[b] = None
                 /\ pose_before'[b] = None
                 /\ e.progress = progress'[b]
                 /\ SelectSeq(e.inner, LAMBDA x : x.ev = "callback") =
                       IF on_complete[b] = None THEN <<>>
                       ELSE <<Event("callback", None, TRUE, progress'[b],
                                    on_complete[b], FALSE, <<>>)>>]_vars

\* a direct stop with completed = true has just put back the pose held at the
\* start, over the pose of a kiss given since, whose bubble is still shown
C22_Witness ==
    /\ call.op = "stop"
    /\ call.arg[2]
    /\ CallbacksIn(call.log) = 1
    /\ reaction_run.key = "kiss"
    /\ reaction_bubble = "heart"
    /\ reaction_run.others
    /\ pose_name = InitPose

\* C23: start() on a behavior that is already active changes nothing: the
\* phase, the phase timer, the progress, the pose snapshot, the stored
\* callback and the pose keep their values, and the new callback is dropped
C23_StartWhenActive ==
    [][(call'.op = "start" /\ active[call'.arg[1]])
          => /\ call'.log = <<>>
             /\ UNCHANGED <<active, phase, phase_timer, progress, pose_before,
                            on_complete, pose_name, stats, last_trigger_time,
                            current_time, time_since_check,
                            override_next_behavior>>]_vars

\* a start with another callback has just been made on a behavior that is
\* past its first phase, with a pose other than the one a start forces
C23_Witness ==
    /\ call.op = "start"
    /\ call.log = <<>>
    /\ LET b == call.arg[1]
       IN  /\ b # Idle
           /\ active[b]
           /\ on_complete[b] # call.arg[2]
           /\ phase[b] # FirstPhase(b)
           /\ progress[b] > 0
           /\ pose_before[b] # pose_name
           /\ pose_name # StartPose(b)

\* C24: when idle is active together with a non-idle behavior, the next
\* update stops idle with completed = false before it advances the non-idle
\* behavior: idle is inactive when the call returns, and in that call idle
\* is neither updated nor restarted, nor are its stat effects applied
C24_IdleStoppedFirst ==
    [][(/\ call'.op = "update"
        /\ active[Idle]
        /\ \E b \in Names \ {Idle} : active[b])
          => /\ ~active'[Idle]
             /\ \E k \in DOMAIN call'.log :
                   /\ call'.log[k].ev = "stop"
                   /\ call'.log[k].b = Idle
                   /\ ~call'.log[k].completed
                   /\ SubSeq(call'.log, 1, k - 1) = call'.log[k].inner
                   /\ \A j \in 1..(k - 1) : call'.log[j].ev = "callback"
                   /\ \E j \in (k + 1)..Len(call'.log) :
                         /\ call'.log[j].ev = "effects"
                         /\ call'.log[j].b = active_behavior(Cur)
             /\ ~Has(call'.log, "effects", Idle)
             /\ ~Has(call'.log, "start", Idle)
             /\ phase'[Idle] = phase[Idle]
             /\ phase_timer'[Idle] = phase_timer[Idle]
             /\ progress'[Idle] = progress[Idle]]_vars

\* an update has just stopped idle as interrupted and advanced Playing, which
\* a caller had started directly while idle was running
C24_Witness ==
    /\ call.op = "update"
    /\ Len(call.log) >= 2
    /\ call.log[1].ev = "stop"
    /\ call.log[1].b = Idle
    /\ ~call.log[1].completed
    /\ call.log[2] = Note("effects", "playing")
    /\ active["playing"]
    /\ on_complete["playing"] = External
    /\ ~active[Idle]

\* C25: every start made by the scheduler (trigger(name), the override slot,
\* automatic selection) sets the behavior's last_trigger_time to the
\* scheduler's current time, and nothing else changes it, so automatic
\* selection passes over the behavior until COOLDOWN has elapsed since that
\* start; trigger(name) and the override start a registered behavior
\* whatever its cooldown
C25_SchedulerStartsMark ==
    [][\A b \in Names :
          /\ (call'.op = "trigger" /\ call'.arg = b)
                => /\ call'.ret
                   /\ Has(call'.log, "start", b)
                   /\ active'[b]
                   /\ last_trigger_time'[b] = current_time'
          /\ (/\ call'.op = "update"
              /\ override_next_behavior = b
              /\ \A c \in Names \ {Idle} : ~active[c])
                => /\ Has(call'.log, "start", b)
                   /\ active'[b]
                   /\ last_trigger_time'[b] = current_time'
          /\ (b # Idle /\ Has(call'.log, "start", b))
                => last_trigger_time'[b] = current_time'
          /\ last_trigger_time'[b] # last_trigger_time[b]
                => /\ Has(call'.log, "start", b)
                   /\ last_trigger_time'[b] = current_time'
          /\ Has(call'.log, "auto", b)
                => current_time' - last_trigger_time[b]
                      >= COOLDOWN(b) * TicksPerSecond]_vars

\* a behavior that trigger(name) or the override started has ended, and the
\* automatic check has just passed over it although its threshold is met:
\* its cooldown counts from that start
C25_Witness ==
    /\ call.op = "update"
    /\ Has(call.log, "check", None)
    /\ external_calls = 1
    /\ \E b \in Names \ {Idle} :
          /\ last_trigger_time[b] > 0
          /\ current_time - last_trigger_time[b] < COOLDOWN(b) * TicksPerSecond
          /\ ThresholdMet(Cur, b)
          /\ ~active[b]
          /\ \A c \in Names : ~Has(call.log, "auto", c)

MainPhase(b) == IF b = "playing" THEN "playing" ELSE "stretching"

LastPhase(b) == IF b = "playing" THEN "tired" ELSE "relaxing"

MainDuration(b) == IF b = "playing" THEN play_duration ELSE stretch_duration

\* C27: the progress of every behavior is in [0, 1] in every reachable state;
\* it is 0 from the start until the main phase is entered, in the main phase
\* it is min(1, phase_timer / duration of the main phase), and it does not
\* decrease while the behavior stays active
C27_ProgressBounds ==
    /\ [](\A b \in Names :
            /\ progress[b] >= 0
            /\ progress[b] <= ProgressOne
            /\ (active[b] /\ phase[b] = FirstPhase(b)) => progress[b] = 0
            /\ (b # Idle /\ active[b] /\ phase[b] = MainPhase(b))
                  => progress[b] = Min(ProgressOne,
                                       (phase_timer[b] * ProgressOne)
                                          \div MainDuration(b))
            /\ (b # Idle /\ active[b] /\ phase[b] = LastPhase(b))
                  => progress[b] = ProgressOne)
    /\ [][\A b \in Names :
            (active[b] /\ active'[b] /\ ~Has(call'.log, "start", b))
               => progress'[b] >= progress[b]]_vars

\* an update has just left Playing part of the way through its main phase
C27_Witness ==
    /\ call.op = "update"
    /\ active["playing"]
    /\ phase["playing"] = "playing"
    /\ phase_timer["playing"] = 2 * TicksPerSecond
    /\ progress["playing"] = (2 * ProgressOne) \div 5

\* C28: active_behavior returns an active non-idle behavior whenever there
\* is one, the first in registration order; it returns idle only when idle
\* is active and no non-idle behavior is; it returns none exactly when no
\* behavior is active
C28_ActiveBehavior ==
    LET r == active_behavior(Cur)
        nonidle == {b \in Names \ {Idle} : active[b]}
    IN  /\ r \in Names \cup {None}
        /\ nonidle # {} =>
              /\ r \in nonidle
              /\ \A b \in nonidle : Index(r) <= Index(b)
        /\ r = Idle <=> (active[Idle] /\ nonidle = {})
        /\ r = None <=> (\A b \in Names : ~active[b])

\* idle, Playing and Stretching are all active after direct starts, and
\* active_behavior returns Playing
C28_Witness ==
    /\ \A b \in Names : active[b]
    /\ call.op = "start"
    /\ active_behavior(Cur) = "playing"

\* C29: when an action's delta a and a behavior's rate r reach the same stat
\* s in one tick, each write clamps on its own, in call order: the result is
\* clamp(clamp(s + a) + r*dt) when the action comes first and
\* clamp(clamp(s + r*dt) + a) when the behavior comes first
C29_WritesInCallOrder ==
    probe.kind = "pair" =>
        LET s0 == probe.list[1]
            a == probe.list[2] * StatUnit
            r == (probe.list[3] * StatUnit * probe.list[4]) \div (2 * TicksPerSecond)
            lim(x) == Max(0, Min(100 * StatUnit, x))
        IN  /\ stats[call.arg[1]] = probe.out
            /\ probe.out = IF probe.key[1] = "action_first"
                           THEN lim(lim(s0 + a) + r)
                           ELSE lim(lim(s0 + r) + a)

\* a tick near the limit of 100 has just given a result that is neither the
\* clamp of the sum s + a + r*dt nor the result of the other order
C29_Witness ==
    /\ probe.kind = "pair"
    /\ LET s0 == probe.list[1]
           a == probe.list[2] * StatUnit
           r == (probe.list[3] * StatUnit * probe.list[4]) \div (2 * TicksPerSecond)
           lim(x) == Max(0, Min(100 * StatUnit, x))
       IN  /\ s0 > 90 * StatUnit
           /\ probe.out # lim(s0 + a + r)
           /\ lim(lim(s0 + a) + r) # lim(lim(s0 + r) + a)

\* C30: an active non-idle behavior is never stopped by automatic selection
\* or by the override slot: an update that finds one active lets it run on or
\* complete, starts nothing else and leaves a pending override in the slot;
\* writing the slot stops nothing; a non-idle behavior is interrupted only in
\* a trigger(name) or a direct stop made by a caller
C30_NoPreemption ==
    [][/\ \A i \in DOMAIN call'.log :
            (/\ call'.log[i].ev = "stop"
             /\ call'.log[i].b # Idle
             /\ ~call'.log[i].completed)
               => call'.op \in {"trigger", "stop"}
       /\ \A b \in Names \ {Idle} :
            (call'.op = "update" /\ active[b])
               => /\ active'[b] \/ \E i \in DOMAIN call'.log :
                                        /\ call'.log[i].ev = "stop"
                                        /\ call'.log[i].b = b
                                        /\ call'.log[i].completed
                  /\ \A c \in Names : ~Has(call'.log, "start", c)
                  /\ ~Has(call'.log, "check", None)
                  /\ override_next_behavior' = override_next_behavior
                  /\ time_since_check' = time_since_check
       /\ call'.op = "set_override" => UNCHANGED <<active, phase, pose_name>>]_vars

\* an update has just advanced Stretching and left it active although the
\* override slot, written while it ran, names Playing
C30_Witness ==
    /\ call.op = "update"
    /\ override_next_behavior = "playing"
    /\ active["stretching"]
    /\ phase["stretching"] = "stretching"
    /\ ~Has(call.log, "start", "stretching")
    /\ ~active["playing"]

\* the phases of a behavior, in order
Phases(b) ==
    IF b = "playing" THEN <<"excited", "playing", "tired">>
    ELSE <<"preparing", "stretching", "relaxing">>

PhaseIndex(b, ph) == CHOOSE i \in 1..3 : Phases(b)[i] = ph

\* C31: one update makes at most one phase transition of the active
\* behavior, and the part of dt beyond the phase's duration is dropped: the
\* timer of the phase entered is 0. An update by 7 s of a freshly started
\* Playing leaves it active in phase "playing" with timer 0, and a run of
\* Playing completes after no fewer than three updates
C31_OneTransitionPerUpdate ==
    /\ [][\A b \in Names \ {Idle} :
            (call'.op = "update" /\ active[b] /\ ~Has(call'.log, "start", b)) =>
               /\ active'[b] =>
                     /\ PhaseIndex(b, phase'[b]) - PhaseIndex(b, phase[b]) \in {0, 1}
                     /\ phase_timer'[b] = IF phase'[b] = phase[b]
                                          THEN phase_timer[b] + call'.arg ELSE 0
               /\ ~active'[b] => PhaseIndex(b, phase[b]) = 3
               /\ (/\ b = "playing"
                   /\ phase[b] = "excited"
                   /\ phase_timer[b] = 0
                   /\ call'.arg = 7 * TicksPerSecond)
                     => /\ active'[b]
                        /\ phase'[b] = "playing"
                        /\ phase_timer'[b] = 0]_vars
    /\ [](play_run.state = "completed" => Len(play_run.steps) >= 3)

\* a single update by 7 s, as long as the three phases of Playing together,
\* has just moved a freshly started Playing into its main phase, timer 0
C31_Witness ==
    /\ call.op = "update"
    /\ call.arg = 7 * TicksPerSecond
    /\ play_run.state = "open"
    /\ play_run.steps = <<7 * TicksPerSecond>>
    /\ active["playing"]
    /\ phase["playing"] = "playing"
    /\ phase_timer["playing"] = 0
    /\ progress["playing"] = 0

\* C32: every natural completion of Playing or Stretching reports progress
\* 1.0, to the stop, to the callback and to the completion bonus, which is
\* therefore never scaled down; an interruption of a behavior in its first
\* phase reports progress 0
C32_CompletionProgress ==
    [][\A i \in DOMAIN call'.log :
          LET e == call'.log[i]
          IN  /\ (e.ev = "stop" /\ e.b # Idle /\ e.completed)
                    => /\ call'.op = "update"
                       /\ e.progress = ProgressOne
                       /\ progress'[e.b] = ProgressOne
                       /\ \A j \in DOMAIN e.inner :
                             e.inner[j].ev \in {"callback", "bonus"}
                                => /\ e.inner[j].completed
                                   /\ e.inner[j].progress = ProgressOne
              /\ e.ev = "bonus" => e.progress = ProgressOne
              /\ (/\ e.ev = "stop"
                  /\ e.b # Idle
                  /\ ~e.completed
                  /\ phase[e.b] = FirstPhase(e.b))
                    => e.progress = 0]_vars

\* Playing, whose progress was 0.2 when an update three times as long as the
\* main phase moved it on, has just completed and reported progress 1
C32_Witness ==
    /\ call.op = "update"
    /\ play_run.state = "completed"
    /\ play_run.steps = <<excited_duration, 1 * TicksPerSecond,
                          15 * TicksPerSecond, tired_duration>>
    /\ \E i \in DOMAIN call.log :
          /\ call.log[i].ev = "stop"
          /\ call.log[i].b = "playing"
          /\ call.log[i].completed
          /\ call.log[i].progress = ProgressOne
    /\ progress["playing"] = ProgressOne

\* C33: in the update in which the active behavior completes, its stop, with
\* the callback and any bonus, comes first, inside the behavior's update, and
\* the scheduler then applies that call's stat effects of the behavior, now
\* inactive. The stat effects of a non-idle behavior are applied in exactly
\* the updates that find it active, the completing one included, and neither
\* in the call that starts it nor after it has ended
C33_EffectsThroughCompletion ==
    [][\A b \in Names \ {Idle} :
          LET log == call'.log
              sel(ev) == {i \in DOMAIN log : log[i].ev = ev /\ log[i].b = b}
              done == {i \in sel("stop") : log[i].completed}
          IN  /\ Has(log, "effects", b)
                    <=> (call'.op = "update" /\ active_behavior(Cur) = b)
              /\ Has(log, "effects", b) =>
                    /\ active[b]
                    /\ ~Has(log, "start", b)
                    /\ sel("effects") = {Len(log)}
              /\ (call'.op = "update" /\ done # {}) =>
                    /\ ~active'[b]
                    /\ sel("effects") = {Len(log)}
                    /\ \A i \in DOMAIN log :
                          log[i].ev \in {"stop", "callback", "bonus"}
                             => i < Len(log)
                    /\ on_complete[b] = None =>
                          stats' = ApplyRates(stats, STAT_EFFECTS(b), call'.arg)]_vars

\* the update that completed an automatically started Playing has just run
\* the completion handler and the bonus and then applied the stat effects
C33_Witness ==
    /\ call.op = "update"
    /\ ~active["playing"]
    /\ Len(call.log) >= 4
    /\ call.log[Len(call.log)] = Note("effects", "playing")
    /\ \E i, j, k \in DOMAIN call.log :
          /\ i < j
          /\ j < k
          /\ k < Len(call.log)
          /\ call.log[i].ev = "callback"
          /\ call.log[j].ev = "bonus"
          /\ call.log[k].ev = "stop"
          /\ call.log[k].b = "playing"
          /\ call.log[k].completed

\* C34: when a non-idle behavior completes during an update, no behavior is
\* active when the call returns: idle is not started and nothing is
\* selected in that call. This is the only way an update ends with nothing
\* active, and an update that finds nothing active always leaves a behavior
\* active, so no two updates in a row end with nothing active
C34_GapAfterCompletion ==
    [][call'.op = "update" =>
          LET completes ==
                  \E i \in DOMAIN call'.log :
                     /\ call'.log[i].ev = "stop"
                     /\ call'.log[i].b # Idle
                     /\ call'.log[i].completed
          IN  /\ completes =>
                    /\ \A b \in Names : ~active'[b]
                    /\ \A b \in Names : ~Has(call'.log, "start", b)
                    /\ ~Has(call'.log, "check", None)
                    /\ override_next_behavior' = override_next_behavior
              /\ (\A b \in Names : ~active'[b]) => completes
              /\ (\A b \in Names : ~active[b]) => \E b \in Names : active'[b]]_vars

\* the update that completed Stretching, with an override waiting in the
\* slot, has just returned with no behavior active
C34_Witness ==
    /\ call.op = "update"
    /\ \A b \in Names : ~active[b]
    /\ \E i \in DOMAIN call.log :
          /\ call.log[i].ev = "stop"
          /\ call.log[i].b = "stretching"
          /\ call.log[i].completed
    /\ override_next_behavior = "playing"

\* C35: trigger(name) on the behavior that is active restarts it: it is
\* stopped as interrupted, its callback, if any, called with completed =
\* false and no bonus applied, and started again in its first phase with
\* timer 0 and progress 0; its pose_before is the pose it held at the
\* trigger, which is the pose that its natural completion then restores
C35_TriggerRestarts ==
    /\ [][\A b \in Names :
            (call'.op = "trigger" /\ call'.arg = b /\ active_behavior(Cur) = b) =>
               /\ call'.log =
                     (IF on_complete[b] = None THEN <<>>
                      ELSE <<Event("callback", None, FALSE, progress[b],
                                   on_complete[b], FALSE, <<>>)>>)
                     \o <<Event("stop", b, FALSE, progress[b], on_complete[b], TRUE,
                                IF on_complete[b] = None THEN <<>>
                                ELSE <<Event("callback", None, FALSE, progress[b],
                                             on_complete[b], FALSE, <<>>)>>),
                          Event("start", b, FALSE, 0, None, FALSE, <<>>)>>
               /\ stats' = stats
               /\ active'[b]
               /\ phase'[b] = FirstPhase(b)
               /\ phase_timer'[b] = 0
               /\ progress'[b] = 0
               /\ on_complete'[b] = None
               /\ pose_before'[b] = pose_name
               /\ pose_name' = IF StartPose(b) = None THEN pose_name
                               ELSE StartPose(b)]_vars
    /\ [][(/\ call'.op = "update"
           /\ play_run.state = "open"
           /\ play_run'.state = "completed")
             => pose_name' = pose_before["playing"]]_vars

\* Playing, restarted in its main phase by trigger("playing"), has just
\* completed, and the pose is the one of the main phase, not the pose from
\* before the automatic start
C35_Witness ==
    /\ call.op = "update"
    /\ external_calls = 1
    /\ play_run.state = "completed"
    /\ play_run.cb = None
    /\ play_run.pose0 = "sitting_silly.side.happy"
    /\ pose_name = "sitting_silly.side.happy"
    /\ ~active["playing"]
    /\ last_trigger_time["playing"] > 15 * TicksPerSecond

\* the time within which a run of three phases ends under updates of at most
\* 5 s: the durations of the phases of Playing, the longer behavior, and one
\* overshoot per phase
RunBudget == excited_duration + play_duration + tired_duration
                + 3 * (5 * TicksPerSecond)

\* C36: under a game loop that keeps calling update with dt >= 1 s, a
\* Playing or Stretching that is active and not interrupted becomes inactive
\* after finitely many updates: it does not stay active forever, stalled in
\* a phase or otherwise (stated for the runs that have the time of a whole
\* run left before the end of the model's time)
C36_BehaviorsTerminate ==
    (/\ \E b \in Names \ {Idle} : active[b]
     /\ current_time + RunBudget <= MaxTimeLive)
       ~> (\A b \in Names \ {Idle} : ~active[b])

\* Stretching, started by the automatic check, has completed after updates
\* of 1 s
C36_Witness ==
    /\ call.op = "update"
    /\ call.arg = 1 * TicksPerSecond
    /\ ~active["stretching"]
    /\ phase["stretching"] = "relaxing"
    /\ progress["stretching"] = ProgressOne
    /\ \E i \in DOMAIN call.log :
          /\ call.log[i].ev = "stop"
          /\ call.log[i].b = "stretching"
          /\ call.log[i].completed

\* C37: the elapsed time of the scheduler grows by dt in every update and
\* changes in no other call, so it is the sum of the dt of the updates and
\* never decreases; every last_trigger_time is at most the elapsed time; a
\* behavior that was never triggered has last_trigger_time = -COOLDOWN and
\* passes the cooldown test at any time, so the very first automatic check
\* selects a behavior whenever one has its threshold met
C37_ElapsedTime ==
    /\ [][current_time' = current_time
                             + (IF call'.op = "update" THEN call'.arg ELSE 0)]_vars
    /\ [](/\ current_time >= 0
          /\ \A b \in Names :
                /\ last_trigger_time[b] <= current_time
                /\ last_trigger_time[b] < 0 =>
                      /\ last_trigger_time[b] = -(COOLDOWN(b) * TicksPerSecond)
                      /\ current_time - last_trigger_time[b]
                            >= COOLDOWN(b) * TicksPerSecond)
    /\ [][(/\ Has(call'.log, "check", None)
           /\ time_since_check = current_time
           /\ external_calls = 0)
             => ((\E b \in Names \ {Idle} :
                     ThresholdMet([Cur EXCEPT !.stats = stats'], b))
                 <=> (\E b \in Names \ {Idle} : Has(call'.log, "auto", b)))]_vars

\* the first automatic check, made by the first update, at 15 s, has just
\* selected Playing, which had never been triggered
C37_Witness ==
    /\ call.op = "update"
    /\ call.arg = check_interval
    /\ current_time = check_interval
    /\ Has(call.log, "auto", "playing")
    /\ last_trigger_time["playing"] = current_time
    /\ last_trigger_time["stretching"] = -(COOLDOWN("stretching") * TicksPerSecond)

\* C38: in every state reached by apply_action and overlay updates with
\* dt >= 0, the bubble is set exactly when the timer is above 0; an action
\* applied while the overlay is armed replaces the bubble and restarts the
\* timer at the new duration, and the pose goes from the one held to the new
\* reaction's without a revert to the default: one slot, no queue
C38_SingleSlot ==
    /\ [](/\ reaction_bubble # None <=> reaction_timer > 0
          /\ reaction_timer > 0 => reaction_timer <= reaction_duration)
    /\ [][(call'.op = "apply_action" /\ call'.ret /\ call'.arg[2])
            => LET reaction == Actions(call'.arg[1])
               IN  /\ reaction_bubble' = reaction.bubble
                   /\ reaction_timer' = reaction.duration
                   /\ reaction_duration' = reaction.duration
                   /\ pose_name' = reaction.pose]_vars

\* "toy" has just been applied 0.5 s after a kiss, while the heart was shown:
\* the bubble is now the toy's and the timer its 2.0 s
C38_Witness ==
    /\ call.op = "apply_action"
    /\ call.arg = <<"toy", TRUE>>
    /\ probe.kind = "arm"
    /\ probe.list = <<2 * TicksPerSecond>>
    /\ probe.key = <<"heart", "sitting.forward.happy">>
    /\ reaction_bubble = "exclaim"
    /\ reaction_timer = 2 * TicksPerSecond
    /\ reaction_duration = 2 * TicksPerSecond

====
